---- MODULE Spec2Model ----
(***************************************************************************)
(* A model of the tracer registry of npillmayer/schuko: package tracing    *)
(* (selector facade, adapter registry) and package tracing/trace2go (root  *)
(* tracer, table of named tracers).  Every exported function is a          *)
(* procedure of labelled steps run by a thread; a step is one lock         *)
(* operation or the statements between two lock operations, written as an  *)
(* operator from a state to the set of its successor states.  Under Spec   *)
(* one thread calls the functions one after the other, each call running   *)
(* its steps to the end; under ConcSpec the threads interleave the steps.  *)
(* Under TracerSpec a client calls the methods of one tracer of the        *)
(* adapter packages (gologadapter, gotestingadapter, goslogadapter,        *)
(* logrusadapter), of the bare-bones or of the no-op tracer.  Under         *)
(* LevelSpec a client parses names of trace levels, under GtraceSpec it    *)
(* calls CreateTracers of package gtrace.                                  *)
(***************************************************************************)
EXTENDS Naturals, Integers, Sequences, FiniteSets, TLC

\* ------------------------------------------------------------- bounds
\* Number of tracer objects that may be allocated in one behaviour.
MaxTracers == 3
\* Number of calls made in sequence before the threads make theirs.
MaxSetupCalls == 2
\* Number of messages a tracer emits before the client takes another one.
MaxMessages == 2
\* Number of method calls followed after a call of P.
MaxCallsAfterP == 3

\* ---------------------------------------------------------- constants
Nil == 0
\* The value noOpTrace{}: a zero-size struct, all of its values are equal.
NoOpRef == 1
\* The interface value whose type word is *_BareBonesTrace and whose data
\* word is nil: what root holds between the two word stores of root.go 48.
NilBareRef == 2
LevelError == 0
LevelInfo == 1
LevelDebug == 2
Levels == {LevelError, LevelInfo, LevelDebug}

Threads == {"t1", "t2"}
NoThread == "none"
Names == {"root", "a", "b"}
Prefixes == {"LEVEL"}
\* Adapters (factories): the nil Adapter, the built-in no-op factory, the
\* bare-bones closure of rootTracer.init, gologadapter.New, the closure of
\* gotestingadapter.GetAdapter.
Factories == {"nil", "nop", "bare", "golog", "test"}

\* --------------------------------------------------------- variables
\* The global tracers of package gtrace, in the order CreateTracers assigns them.
GlobalTracers ==
    <<"EquationsTracer", "InterpreterTracer", "SyntaxTracer", "CommandTracer",
      "GraphicsTracer", "ScriptingTracer", "CoreTracer", "EngineTracer">>

VARIABLES
    root,               \* trace2go.root: a tracer reference, Nil when unset
    initRootDone,       \* initRoot (sync.Once): TRUE once Do has run
    selectableTracers,  \* trace2go.selectableTracers: name -> reference
    selector,           \* tracing.selector: "nil" or "trace2go"
    knownTraceAdapters, \* tracing.knownTraceAdapters: key -> factory
    heap,               \* the tracer objects allocated so far
    locks,              \* mx, childMx, selectorMutex, adapterMutex, once
    stack,              \* per thread: the labels to run, current one first
    call,               \* per thread: the exported function called, its arguments
    loc,                \* per thread: local variables of the running functions
    tracer,             \* the tracer a client holds and calls the Trace methods of
    written,            \* the messages that tracer has emitted, oldest first
    globalTestingT,     \* gotestingadapter.globalTestingT is set
    levelString,        \* the name of a level the client has read, as runes
    gtrace              \* the eight global tracers of package gtrace, in the order
                        \* CreateTracers assigns them, and the error it returned last

tracerVars == <<tracer, written, globalTestingT, levelString, gtrace>>

vars == <<root, initRootDone, selectableTracers, selector, knownTraceAdapters,
          heap, locks, stack, call, loc, tracer, written, globalTestingT,
          levelString, gtrace>>

\* ------------------------------------------------------ configuration
\* A Configuration is a finite map of keys to strings; GetString of a key
\* that is not set is "".
GetString(conf, k) == IF k \in DOMAIN conf THEN conf[k] ELSE ""

ConfEmpty == [k \in {} |-> ""]
ConfGo ==
    [k \in {"tracing.adapter", "LEVEL.root", "LEVEL.a"} |->
        CASE k = "tracing.adapter" -> "go"
          [] k = "LEVEL.root" -> "Info"
          [] OTHER -> "Debug"]
ConfGo2 ==
    [k \in {"tracing", "alt.adapter", "LEVELa", "LEVEL.a", "LEVEL/a", "LEVEL/b", "LEVEL/root"} |->
        CASE k = "tracing" -> "go"
          [] k = "alt.adapter" -> "nop"
          [] k = "LEVELa" -> "Error"
          [] k = "LEVEL.a" -> "Debug"
          [] k = "LEVEL/a" -> "Info"
          [] k = "LEVEL/b" -> "DEBUG"
          [] OTHER -> "Debug"]
ConfNop ==
    [k \in {"tracing.adapter", "tracing", "LEVEL.a", "LEVEL/a", "LEVEL.b"} |->
        CASE k = "tracing.adapter" -> "nop"
          [] k = "tracing" -> "go"
          [] k = "LEVEL.a" -> "Debug"
          [] k = "LEVEL/a" -> "Error"
          [] OTHER -> "verbose"]
Confs == {ConfGo, ConfGo2, ConfNop}

\* strings.ToLower on the strings the configurations hold.
ToLower(s) ==
    CASE s \in {"Debug", "DEBUG", "debug"} -> "debug"
      [] s \in {"Info", "INFO", "info"} -> "info"
      [] s \in {"Error", "ERROR", "error"} -> "error"
      [] OTHER -> s

TraceLevelFromString(sl) ==
    CASE ToLower(sl) = "debug" -> LevelDebug
      [] ToLower(sl) = "info" -> LevelInfo
      [] ToLower(sl) = "error" -> LevelError
      [] OTHER -> LevelInfo

\* Strings as sequences of runes (code points), so that strings.ToLower
\* works on their letters: unicode.ToLower of a rune maps 'A'..'Z' (65..90)
\* to 'a'..'z', and U+0130 (304), whose simple lower case is 'i' (105),
\* among the runes used here; every other rune used here is its own lower
\* case.
ToLowerRuneUnchanged(c) == c

ToLowerRune(c) == IF c >= 65 /\ c <= 90 THEN c + 32 ELSE IF c = 304 THEN 105 ELSE c

ToLowerRunes(cs) == [i \in 1 .. Len(cs) |-> ToLowerRune(cs[i])]

\* tracing.go 80-90: TraceLevelFromString of a string of runes; the cases
\* are "debug", "info", "error".
TraceLevelFromRunes(cs) ==
    CASE ToLowerRunes(cs) = <<100, 101, 98, 117, 103>> -> LevelDebug
      [] ToLowerRunes(cs) = <<105, 110, 102, 111>> -> LevelInfo
      [] ToLowerRunes(cs) = <<101, 114, 114, 111, 114>> -> LevelError
      [] OTHER -> LevelInfo

\* A getValue that probes the three keys in the opposite order.
getValueLastFirst(conf, prefixKey, key) ==
    IF GetString(conf, prefixKey \o "/" \o key) # "" THEN GetString(conf, prefixKey \o "/" \o key)
    ELSE IF GetString(conf, prefixKey \o "." \o key) # ""
         THEN GetString(conf, prefixKey \o "." \o key)
    ELSE IF GetString(conf, prefixKey \o key) # ""
         THEN GetString(conf, prefixKey \o key)
    ELSE ""

\* root.go 334-348
getValue(conf, prefixKey, key) ==
    IF GetString(conf, prefixKey \o key) # "" THEN GetString(conf, prefixKey \o key)
    ELSE IF GetString(conf, prefixKey \o "." \o key) # ""
         THEN GetString(conf, prefixKey \o "." \o key)
    ELSE IF GetString(conf, prefixKey \o "/" \o key) # ""
         THEN GetString(conf, prefixKey \o "/" \o key)
    ELSE ""

\* ------------------------------------------------------------ options
\* A RootOption: ReplaceTracers(b), AdapterKey(k), or an option that
\* returns an error.
ReplaceTracers(b) == [kind |-> "replace", b |-> b, k |-> ""]
AdapterKey(k) == [kind |-> "adapterKey", b |-> FALSE, k |-> k]
FailingOption == [kind |-> "fail", b |-> FALSE, k |-> ""]
OptLists ==
    { <<>>,
      <<ReplaceTracers(TRUE)>>,
      <<AdapterKey("alt.adapter"), ReplaceTracers(TRUE)>>,
      <<ReplaceTracers(TRUE), FailingOption>> }

\* The loop over opts of ConfigureRoot: the fields of r the options set,
\* and whether one of them returned an error.
RECURSIVE ApplyOpts(_, _)
ApplyOpts(r, opts) ==
    IF opts = <<>> THEN r
    ELSE LET o == Head(opts) IN
         IF o.kind = "fail" THEN [r EXCEPT !.err = TRUE]
         ELSE IF o.kind = "replace"
              THEN ApplyOpts([r EXCEPT !.replaceChildren = o.b], Tail(opts))
              ELSE ApplyOpts([r EXCEPT !.optAdapterKey = o.k], Tail(opts))

\* ------------------------------------------------------------ tracers
\* A tracer object.  isRoot: a *rootTracer (its embedded Trace is of kind
\* kind); the fields after level are those of rootTracer that are read
\* after ConfigureRoot has returned (optAdapterKey and replaceChildren are
\* read by ConfigureRoot alone and are kept with its local variables).
Obj(isRoot, kind, level, config, prefixKey, adapter) ==
    [isRoot |-> isRoot, kind |-> kind, level |-> level, config |-> config,
     prefixKey |-> prefixKey, adapter |-> adapter]

Plain(kind) == Obj(FALSE, kind, LevelError, ConfEmpty, "", "nil")

\* SetTraceLevel: stored by the gologadapter and the gotestingadapter
\* tracer, ignored by the bare-bones and the no-op tracer; a rootTracer
\* passes it to its Trace.
KeepsLevel(h, ref) == h[ref].kind \in {"golog", "test"}

SetTraceLevel(h, ref, l) ==
    IF KeepsLevel(h, ref) THEN [h EXCEPT ![ref].level = l] ELSE h

GetTraceLevel(h, ref) == h[ref].level

\* The tracer a call of a factory returns: the heap after the call and the
\* reference returned.  The no-op factory returns the value noOpTrace{}.
CallAdapter(h, f) ==
    IF f = "nop" THEN [heap |-> h, ref |-> NoOpRef]
    ELSE [heap |-> Append(h, Plain(f)), ref |-> Len(h) + 1]

\* ------------------------------------------------ the Trace methods
\* A tracer as a client holds it: kind names its type (gologadapter.Tracer,
\* gotestingadapter.Tracer, goslogadapter.Tracer, logrusadapter.Tracer,
\* _BareBonesTrace, noOpTrace); level is the level it stores, in the scale
\* of its logger (slog.Level, logrus.Level) where it keeps it there; p is
\* the context it stores ("" for none); t tells whether a *testing.T is
\* bound to it; out is the writer its output goes to.
\*
\* translateTraceLevel: goslogadapter (slog.LevelDebug = -4, LevelInfo = 0,
\* LevelError = 8), logrusadapter (logrus.DebugLevel = 5, InfoLevel = 4,
\* ErrorLevel = 2); the other tracers store the tracing.TraceLevel itself.
translateTraceLevel(kind, l) ==
    CASE kind = "slog" ->
            (CASE l = LevelDebug -> 0 - 4 [] l = LevelInfo -> 0 [] l = LevelError -> 8
               [] OTHER -> 0)
      [] kind = "logrus" ->
            (CASE l = LevelDebug -> 5 [] l = LevelInfo -> 4 [] l = LevelError -> 2
               [] OTHER -> 5)
      [] OTHER -> l

\* A translation back that takes the level of the logger for the trace level.
translateLevelUntranslated(kind, v) == v

\* translateSlogLevel, translateLogLevel
translateLevel(kind, v) ==
    CASE kind = "slog" ->
            (IF v <= 0 - 4 THEN LevelDebug ELSE IF v < 8 THEN LevelInfo ELSE LevelError)
      [] kind = "logrus" ->
            (CASE v = 5 -> LevelDebug [] v = 4 -> LevelInfo [] v = 2 -> LevelError
               [] OTHER -> LevelDebug)
      [] OTHER -> v

\* New of the adapter packages; &_BareBonesTrace{} and noOpTrace{}.  A new
\* tracer is of level Error, but logrus.New() gives a logger of InfoLevel.
New(kind, t) ==
    [kind |-> kind,
     level |-> IF kind = "logrus" THEN 4 ELSE translateTraceLevel(kind, LevelError),
     p |-> "", t |-> t, out |-> "stderr"]

\* Trace.SetTraceLevel
SetLevel(tr, l) ==
    CASE tr.kind = "golog" -> [tr EXCEPT !.level = l]
      [] tr.kind = "test" -> [tr EXCEPT !.p = "", !.level = l]
      [] tr.kind \in {"slog", "logrus"} ->
            [tr EXCEPT !.level = translateTraceLevel(tr.kind, l)]
      [] OTHER -> tr

\* Trace.GetTraceLevel
GetLevel(tr) ==
    CASE tr.kind \in {"golog", "test"} -> tr.level
      [] tr.kind \in {"slog", "logrus"} -> translateLevel(tr.kind, tr.level)
      [] OTHER -> LevelError

\* A SetOutput that every tracer ignores.
SetOutputIgnored(tr, w) == tr

\* Trace.SetOutput: ignored by the testing tracer and the no-op tracer
SetOutput(tr, w) ==
    IF tr.kind \in {"golog", "slog", "logrus", "bare"} THEN [tr EXCEPT !.out = w] ELSE tr

\* Trace.P: the testing and the logrus tracer store the context and return
\* themselves; the golog and slog tracers return a logentry and are left as
\* they are; the bare-bones and the no-op tracer return themselves.
P(tr, key) ==
    IF tr.kind \in {"test", "logrus"} THEN [tr EXCEPT !.p = key] ELSE tr

\* A tracer that filters nothing.
EnabledAtEveryLevel(tr, l) == tr.kind # "nop"

\* The level filter of Debugf, Infof, Errorf (l is the level of the method).
Enabled(tr, l) ==
    CASE tr.kind \in {"golog", "test"} -> ~(tr.level < l)
      [] tr.kind = "slog" -> translateTraceLevel("slog", l) >= tr.level
      [] tr.kind = "logrus" -> tr.level >= translateTraceLevel("logrus", l)
      [] tr.kind = "bare" -> l = LevelError
      [] OTHER -> FALSE

\* Debugf, Infof, Errorf with the message "msg", g telling whether
\* globalTestingT is set: the tracer after the call and the messages emitted.
output(tr, l, g) ==
    LET logLevelPrefix == <<"ERROR ", "INFO  ", "DEBUG ">>[l + 1]
        none == [tracer |-> tr, msgs |-> <<>>]
        one(to, ctx, text) ==
            <<[to |-> to, level |-> l, ctx |-> ctx, text |-> text]>>
    IN CASE tr.kind = "golog" ->
               IF Enabled(tr, l)
               THEN [tracer |-> tr, msgs |-> one(tr.out, "", logLevelPrefix \o "msg")]
               ELSE none
         [] tr.kind = "test" ->
               IF ~Enabled(tr, l) THEN none
               ELSE IF tr.t
               THEN [tracer |-> [tr EXCEPT !.p = ""],
                     msgs |-> one("T", tr.p, logLevelPrefix \o tr.p \o "msg")]
               ELSE IF g
               THEN [tracer |-> [tr EXCEPT !.p = ""],
                     msgs |-> one("globalTestingT", tr.p,
                                  "depr." \o logLevelPrefix \o tr.p \o "msg")]
               ELSE none
         [] tr.kind = "slog" ->
               IF Enabled(tr, l) THEN [tracer |-> tr, msgs |-> one(tr.out, "", "msg")]
               ELSE none
         [] tr.kind = "logrus" ->
               [tracer |-> [tr EXCEPT !.p = ""],
                msgs |-> IF Enabled(tr, l) THEN one(tr.out, tr.p, "msg") ELSE <<>>]
         [] tr.kind = "bare" ->
               IF ~Enabled(tr, l) THEN none
               ELSE IF tr.out = "stderr"
               THEN [tracer |-> tr, msgs |-> one("stderr", "", "[ERROR] msg\n")]
               ELSE [tracer |-> tr, msgs |-> one(tr.out, "", "msg")]
         [] OTHER -> none

\* The wrapper that P returns on a tracer of gologadapter or goslogadapter
\* (type logentry): its tracer, and the context, a prefix string in
\* gologadapter and a list of attributes in goslogadapter.  Every key comes
\* with the value v.
\* gologadapter.go 55-59, part_010 57-62: Tracer.P(key, "v")
logentry(tr, key) ==
    [tracer |-> tr,
     p |-> IF tr.kind = "golog" THEN "[" \o key \o "=v] " ELSE "",
     attrs |-> IF tr.kind = "slog" THEN <<key>> ELSE <<>>]

\* gologadapter.go 139-153, part_010 152-155: logentry.P(key, "v")
logentryP(e, key) ==
    [e EXCEPT !.p = IF e.tracer.kind = "golog" THEN @ \o "[" \o key \o "=v] " ELSE @,
              !.attrs = IF e.tracer.kind = "slog" THEN Append(@, key) ELSE @]

\* slog.Logger.With(attrs...): the attributes as the text handler writes them
RECURSIVE With(_)
With(attrs) == IF attrs = <<>> THEN "" ELSE Head(attrs) \o "=v " \o With(Tail(attrs))

\* gologadapter.go 118-137, 101-108; part_010 140-150, 95-107: Debugf, Infof
\* and Errorf of the wrapper, l the level of the method, with the message
\* "msg": the messages emitted.  level is the level Tracer.output is called
\* with.
logentryOutput(e, l) ==
    CASE e.tracer.kind = "golog" ->
             IF e.tracer.level < l THEN <<>>
             ELSE LET p == IF l = LevelError THEN e.p ELSE "" IN
                  <<[to |-> e.tracer.out, level |-> LevelDebug, ctx |-> p,
                     text |-> IF p = "" THEN "DEBUG msg" ELSE "DEBUG " \o p \o "msg\n"]>>
      [] e.tracer.kind = "slog" ->
             IF translateTraceLevel("slog", l) >= e.tracer.level
             THEN <<[to |-> e.tracer.out, level |-> l, ctx |-> With(e.attrs),
                     text |-> "msg"]>>
             ELSE <<>>
      [] OTHER -> <<>>

\* -------------------------------------------------------------- state
\* The state as one record, so that a step is an operator on states.
Cur ==
    [root |-> root, initRootDone |-> initRootDone,
     selectableTracers |-> selectableTracers, selector |-> selector,
     knownTraceAdapters |-> knownTraceAdapters, heap |-> heap, locks |-> locks,
     stack |-> stack, call |-> call, loc |-> loc]

Install(S) ==
    /\ root' = S.root
    /\ initRootDone' = S.initRootDone
    /\ selectableTracers' = S.selectableTracers
    /\ selector' = S.selector
    /\ knownTraceAdapters' = S.knownTraceAdapters
    /\ heap' = S.heap
    /\ locks' = S.locks
    /\ stack' = S.stack
    /\ call' = S.call
    /\ loc' = S.loc
    /\ UNCHANGED tracerVars

\* -------------------------------------------------------------- locks
LockNames == {"mx", "childMx", "selectorMutex", "adapterMutex", "once"}
FreeLock == [w |-> NoThread, r |-> {}, ww |-> {}]

\* sync.RWMutex: a reader enters when no writer holds the lock and none
\* is waiting for it; a writer announces itself and enters when the lock
\* is free.
CanRLock(S, l) == S.locks[l].w = NoThread /\ S.locks[l].ww = {}
RLock(S, l, t) == [S EXCEPT !.locks[l].r = @ \cup {t}]
RUnlock(S, l, t) == [S EXCEPT !.locks[l].r = @ \ {t}]
LockRequest(S, l, t) == [S EXCEPT !.locks[l].ww = @ \cup {t}]
CanLock(S, l) == S.locks[l].w = NoThread /\ S.locks[l].r = {}
Lock(S, l, t) == [S EXCEPT !.locks[l].w = t, !.locks[l].ww = @ \ {t}]
Unlock(S, l, t) == [S EXCEPT !.locks[l].w = NoThread]

\* ------------------------------------------------------- control flow
PcOf(S, t) == IF S.stack[t] = <<>> THEN "idle" ELSE Head(S.stack[t])
\* The current label is replaced by labels (a jump, or a call and the
\* label to continue at).
Goto(S, t, labels) == [S EXCEPT !.stack[t] = labels \o Tail(@)]
Return(S, t) == [S EXCEPT !.stack[t] = Tail(@)]

EmptyTable == [n \in {} |-> Nil]

NoCall == [op |-> "none", name |-> "", replace |-> FALSE, conf |-> ConfEmpty,
           prefix |-> "", opts |-> <<>>, key |-> "", adapter |-> "nil",
           sel |-> "nil"]

NoOpt == [replaceChildren |-> FALSE, optAdapterKey |-> "", err |-> FALSE]

NoLoc == [name |-> "", replace |-> FALSE, r |-> Nil, trace |-> Nil,
          conf |-> ConfEmpty, optKey |-> "", fac |-> "nil",
          rnew |-> Nil, opt |-> NoOpt, todo |-> {}, sel |-> "nil",
          bbt |-> Nil, ret |-> Nil, ret2 |-> Nil, err |-> FALSE, panic |-> FALSE]

\* The labels a call of a function puts on the stack.
EnterRoot == <<"Root_RLock">>
EnterGetTracer == <<"GT_RLock">>
EnterNewTracer == <<"Root_RLock", "NT_Type">>
EnterGetOrCreateTracer == <<"GT_RLock", "GOC_Check">>
EnterSelect == <<"Sel_RLock">>
EnterFacade == <<"Sel_RLock", "Emit">>
EnterSetTraceSelector == <<"STS_Lock">>
EnterRegisterTraceAdapter == <<"RTA_Lock">>
EnterGetAdapterFromConfiguration == <<"GA_RLock">>
EnterConfigureRoot == <<"CR_Opts">>
EnterTeardown == <<"TD_Lock">>

\* -------------------------------------------------------------- Root
\* root.go 44: mx.RLock()
Root_RLock(S, t) ==
    IF CanRLock(S, "mx") THEN {Goto(RLock(S, "mx", t), t, <<"Root_Check">>)} ELSE {}

\* root.go 46: if root == nil
Root_Check(S, t) ==
    {Goto(S, t, IF S.root = Nil THEN <<"Once_Fast">> ELSE <<"Root_Ret">>)}

\* sync.Once.Do: the check of done without the mutex
Once_Fast(S, t) ==
    {Goto(S, t, IF S.initRootDone THEN <<"Root_Ret">> ELSE <<"Once_Lock">>)}

\* sync.Once.Do: the mutex of the Once
Once_Lock(S, t) ==
    IF CanLock(S, "once") THEN {Goto(Lock(S, "once", t), t, <<"Once_Do">>)} ELSE {}

\* sync.Once.Do: run f unless done; root.go 48: root = &_BareBonesTrace{}.
\* root is an interface value of two words, written while mx is held in
\* read mode only: the tracer is allocated and the type word is stored
Once_Do(S, t) ==
    IF S.initRootDone THEN {Goto(Unlock(S, "once", t), t, <<"Root_Ret">>)}
    ELSE {Goto([S EXCEPT !.heap = Append(@, Plain("bare")),
                         !.loc[t].bbt = Len(S.heap) + 1,
                         !.root = NilBareRef],
               t, <<"Once_Write">>)}

\* root.go 48: the data word is stored; sync.Once.Do: done is set, the
\* mutex of the Once is released
Once_Write(S, t) ==
    {Goto(Unlock([S EXCEPT !.root = S.loc[t].bbt, !.loc[t].bbt = Nil,
                           !.initRootDone = TRUE], "once", t),
          t, <<"Root_Ret">>)}

\* root.go 51, 45: return root, mx.RUnlock()
Root_Ret(S, t) ==
    {Return(RUnlock([S EXCEPT !.loc[t].ret = S.root], "mx", t), t)}

\* --------------------------------------------------------- GetTracer
\* root.go 207: childMx.RLock()
GT_RLock(S, t) ==
    IF CanRLock(S, "childMx") THEN {Goto(RLock(S, "childMx", t), t, <<"GT_Read">>)} ELSE {}

\* A GetTracer that finds no entry.
GetTracerFindsNone(tab, name) == Nil

\* root.go 209-212: the entry of name, nil when there is none
GetTracerValue(tab, name) == IF name \in DOMAIN tab THEN tab[name] ELSE Nil

\* root.go 209-212, 208
GT_Read(S, t) ==
    {Return(RUnlock([S EXCEPT !.loc[t].ret =
                         GetTracerValue(S.selectableTracers, S.loc[t].name)],
                    "childMx", t), t)}

\* ------------------------------------------------- GetOrCreateTracer
\* root.go 219-222: if t == nil { t, _ = NewTracer(name, false) }
GOC_Check(S, t) ==
    IF S.loc[t].ret = Nil
    THEN {Goto([S EXCEPT !.loc[t].replace = FALSE], t, EnterNewTracer)}
    ELSE {Return(S, t)}

\* --------------------------------------------------------- NewTracer
\* A NewTracer that sets no level on the tracer it builds.
NewTracerBuildSetsNoLevel(h, r, name) ==
    [heap |-> CallAdapter(h, h[r].adapter).heap, ref |-> CallAdapter(h, h[r].adapter).ref]

\* root.go 234-236: the new tracer of root r and its level
NewTracerBuild(h, r, name) ==
    LET made == CallAdapter(h, h[r].adapter)
        level == getValue(h[r].config, h[r].prefixKey, name)
    IN [heap |-> SetTraceLevel(made.heap, made.ref, TraceLevelFromString(level)),
        ref |-> made.ref]

\* root.go 233-239: the type switch on Root()
NT_Type(S, t) ==
    LET r == S.loc[t].ret IN
    IF r # Nil /\ S.heap[r].isRoot
    THEN LET b == NewTracerBuild(S.heap, r, S.loc[t].name) IN
         {Goto([S EXCEPT !.heap = b.heap, !.loc[t].r = r, !.loc[t].trace = b.ref],
               t, <<"NT_Lock">>)}
    ELSE {Goto([S EXCEPT !.loc[t].ret2 = Nil], t, EnterRoot)}

\* root.go 240: childMx.Lock()
NT_Lock(S, t) == {Goto(LockRequest(S, "childMx", t), t, <<"NT_Acq">>)}

NT_Acq(S, t) ==
    IF CanLock(S, "childMx") THEN {Goto(Lock(S, "childMx", t), t, <<"NT_Store">>)} ELSE {}

\* A NewTracer that stores no tracer under the name.
NewTracerTableStoresNil(tab, name, replace, trace) ==
    IF name \in DOMAIN tab /\ ~replace THEN tab
    ELSE [n \in DOMAIN tab \cup {name} |-> IF n = name THEN Nil ELSE tab[n]]

\* A NewTracer that stores nothing.
NewTracerStoresNothing(tab, name, replace, trace) == tab

\* root.go 242-250: the table after NewTracer(name, replace) with tracer trace
NewTracerTable(tab, name, replace, trace) ==
    IF name \in DOMAIN tab /\ ~replace THEN tab
    ELSE [n \in DOMAIN tab \cup {name} |-> IF n = name THEN trace ELSE tab[n]]

\* root.go 242-250, 241
NT_Store(S, t) ==
    LET l == S.loc[t] IN
    {Return(Unlock([S EXCEPT
                      !.selectableTracers = NewTracerTable(@, l.name, l.replace, l.trace),
                      !.loc[t].ret = l.trace,
                      !.loc[t].ret2 = GetTracerValue(S.selectableTracers, l.name)],
                   "childMx", t), t)}

\* ------------------------------------------------------------ Select
\* A Select that has no default and calls the trace2go selector always.
Sel_RLockWithoutDefault(S, t) ==
    IF ~CanRLock(S, "selectorMutex") THEN {}
    ELSE {Goto(RLock(S, "selectorMutex", t), t, EnterGetOrCreateTracer \o <<"Sel_Ret">>)}

\* tracing.go 151-156: selectorMutex.RLock(), the selector is called
Sel_RLock(S, t) ==
    IF ~CanRLock(S, "selectorMutex") THEN {}
    ELSE IF S.selector = "trace2go"
         THEN {Goto(RLock(S, "selectorMutex", t), t,
                    EnterGetOrCreateTracer \o <<"Sel_Ret">>)}
         ELSE {Goto(RLock([S EXCEPT !.loc[t].ret = NoOpRef], "selectorMutex", t),
                    t, <<"Sel_Ret">>)}

\* tracing.go 152: selectorMutex.RUnlock()
Sel_Ret(S, t) == {Return(RUnlock(S, "selectorMutex", t), t)}

\* ------------------------------------------- Debugf, Infof, Errorf
\* A panic unwinds the stack of thread t: the deferred unlocks of its
\* frames run, the call ends without a result.
Panic(S, t) ==
    [S EXCEPT !.locks = [l \in LockNames |->
                            [w |-> IF S.locks[l].w = t THEN NoThread ELSE S.locks[l].w,
                             r |-> S.locks[l].r \ {t},
                             ww |-> S.locks[l].ww \ {t}]],
              !.loc[t].panic = TRUE,
              !.loc[t].ret = Nil,
              !.stack[t] = <<"Done">>]

\* tracing.go 283-298: Select("root").Debugf(...): the method is called on
\* the tracer Select returned, which panics when that is the nil Trace or
\* a nil *_BareBonesTrace (root.go 302-305: value receivers)
Emit(S, t) ==
    IF S.loc[t].ret \in {Nil, NilBareRef} THEN {Panic(S, t)} ELSE {Return(S, t)}

\* -------------------------------------------------- SetTraceSelector
\* tracing.go 131: selectorMutex.Lock()
STS_Lock(S, t) == {Goto(LockRequest(S, "selectorMutex", t), t, <<"STS_Acq">>)}

STS_Acq(S, t) ==
    IF CanLock(S, "selectorMutex")
    THEN {Goto(Lock(S, "selectorMutex", t), t, <<"STS_Set">>)} ELSE {}

\* A SetTraceSelector that leaves the selector as it is.
STS_SetKeepsSelector(S, t) == {Return(Unlock(S, "selectorMutex", t), t)}

\* tracing.go 133, 132
STS_Set(S, t) ==
    {Return(Unlock([S EXCEPT !.selector = S.loc[t].sel], "selectorMutex", t), t)}

\* ---------------------------------------------- RegisterTraceAdapter
\* tracing.go 177: adapterMutex.Lock()
RTA_Lock(S, t) == {Goto(LockRequest(S, "adapterMutex", t), t, <<"RTA_Acq">>)}

\* tracing.go 177, 179: the lock is taken, Infof is called
RTA_Acq(S, t) ==
    IF CanLock(S, "adapterMutex")
    THEN {Goto(Lock([S EXCEPT !.loc[t].name = "root"], "adapterMutex", t), t,
               EnterFacade \o <<"RTA_Store">>)}
    ELSE {}

\* tracing.go 180-183: the registry after RegisterTraceAdapter(key, adapter, replace)
RegisterTable(known, key, adapter, replace) ==
    IF key \notin DOMAIN known \/ known[key] = "nil" \/ replace
    THEN [k \in DOMAIN known \cup {key} |-> IF k = key THEN adapter ELSE known[k]]
    ELSE known

\* tracing.go 180-183, 178
RTA_Store(S, t) ==
    LET c == S.call[t] IN
    {Return(Unlock([S EXCEPT
                      !.knownTraceAdapters = RegisterTable(@, c.key, c.adapter, c.replace),
                      !.loc[t].ret = Nil],
                   "adapterMutex", t), t)}

\* --------------------------------------- GetAdapterFromConfiguration
\* tracing.go 197-200: the adapter name read from the configuration
AdapterPackage(conf, optKey) ==
    IF GetString(conf, "tracing.adapter") # ""
    THEN GetString(conf, "tracing.adapter")
    ELSE GetString(conf, "tracing")

\* tracing.go 203-204: the registry entry, "nil" when there is none
LookupAdapter(known, k) == IF k \in DOMAIN known THEN known[k] ELSE "nil"

\* tracing.go 197-205: the lock is taken, the adapter is looked up; when
\* there is none Debugf is called
GA_RLock(S, t) ==
    IF ~CanRLock(S, "adapterMutex") THEN {}
    ELSE LET a == LookupAdapter(S.knownTraceAdapters,
                                AdapterPackage(S.loc[t].conf, S.loc[t].optKey))
             S1 == RLock([S EXCEPT !.loc[t].fac = a], "adapterMutex", t)
         IN IF a = "nil"
            THEN {Goto([S1 EXCEPT !.loc[t].name = "root"], t, EnterFacade \o <<"GA_Ret">>)}
            ELSE {Goto(S1, t, <<"GA_Ret">>)}

\* tracing.go 206-208, 202
GA_Ret(S, t) ==
    LET a == IF S.loc[t].fac = "nil" THEN LookupAdapter(S.knownTraceAdapters, "bare")
             ELSE S.loc[t].fac
    IN {Return(RUnlock([S EXCEPT !.loc[t].fac = a], "adapterMutex", t), t)}

\* ----------------------------------------------------- ConfigureRoot
\* root.go 57-63: the options are applied, the first error is returned;
\* then r.init() calls GetAdapterFromConfiguration
CR_Opts(S, t) ==
    LET c == S.call[t]
        o == ApplyOpts(NoOpt, c.opts)
    IN IF o.err
       THEN {Return([S EXCEPT !.loc[t].err = TRUE], t)}
       ELSE {Goto([S EXCEPT !.loc[t].opt = o, !.loc[t].conf = c.conf,
                            !.loc[t].optKey = o.optAdapterKey],
                  t, EnterGetAdapterFromConfiguration \o <<"CR_Init">>)}

\* root.go 169-178: the heap with the root tracer built from adapter, its
\* level set when the configuration holds one for "root"
RootTracerInit(h, adapter, conf, prefixKey, opt) ==
    LET a == IF adapter = "nil" THEN "bare" ELSE adapter
        l == getValue(conf, prefixKey, "root")
        h1 == Append(h, Obj(TRUE, a, LevelError, conf, prefixKey, a))
    IN IF l # "" THEN SetTraceLevel(h1, Len(h1), TraceLevelFromString(l)) ELSE h1

CR_Init(S, t) ==
    {Goto([S EXCEPT !.heap = RootTracerInit(@, S.loc[t].fac, S.call[t].conf,
                                             S.call[t].prefix, S.loc[t].opt),
                    !.loc[t].rnew = Len(S.heap) + 1],
          t, <<"CR_Lock">>)}

\* root.go 64: mx.Lock()
CR_Lock(S, t) == {Goto(LockRequest(S, "mx", t), t, <<"CR_Acq">>)}

CR_Acq(S, t) ==
    IF CanLock(S, "mx") THEN {Goto(Lock(S, "mx", t), t, <<"CR_Install">>)} ELSE {}

\* root.go 66-67: root == nil || isBB
IsBareOrNil(h, r) == r = Nil \/ (~h[r].isRoot /\ h[r].kind = "bare")

\* root.go 67-74: does ConfigureRoot replace the named tracers?
Cascades(h, old, opt) == ~IsBareOrNil(h, old) /\ opt.replaceChildren

\* A ConfigureRoot that leaves the root as it is.
CR_InstallNothing(S, t) == {Goto(S, t, <<"CR_Unlock">>)}

\* root.go 66-74: the new root is installed
CR_Install(S, t) ==
    {Goto([S EXCEPT !.root = S.loc[t].rnew], t,
          IF Cascades(S.heap, S.root, S.loc[t].opt)
          THEN <<"CR_ChildLock">> ELSE <<"CR_Unlock">>)}

\* root.go 76: childMx.Lock()
CR_ChildLock(S, t) == {Goto(LockRequest(S, "childMx", t), t, <<"CR_ChildAcq">>)}

\* A cascade that reports through the facade, tracing.Errorf, once it has
\* taken childMx.
CR_ChildAcqCallsFacade(S, t) ==
    IF CanLock(S, "childMx")
    THEN {Goto(Lock([S EXCEPT !.loc[t].todo = DOMAIN S.selectableTracers,
                              !.loc[t].name = "root"], "childMx", t),
               t, EnterFacade \o <<"CR_Cascade">>)}
    ELSE {}

\* A cascade that starts the range without waiting for childMx.
CR_ChildAcqTakesNoLock(S, t) ==
    {Goto([S EXCEPT !.loc[t].todo = DOMAIN S.selectableTracers,
                    !.locks["childMx"].ww = @ \ {t}], t, <<"CR_Cascade">>)}

\* root.go 76, 80: the lock is taken, the range over the table starts
CR_ChildAcq(S, t) ==
    IF CanLock(S, "childMx")
    THEN {Goto(Lock([S EXCEPT !.loc[t].todo = DOMAIN S.selectableTracers], "childMx", t),
               t, <<"CR_Cascade">>)}
    ELSE {}

\* A setTracer that does not pass the level on.
setTracerKeepsNoLevel(tab, h, name, trace) ==
    [table |-> [n \in DOMAIN tab \cup {name} |-> IF n = name THEN trace ELSE tab[n]],
     heap |-> h,
     prev |-> IF name \in DOMAIN tab THEN tab[name] ELSE Nil]

\* root.go 260-268: setTracer(name, trace) on table tab and heap h
setTracer(tab, h, name, trace) ==
    [table |-> [n \in DOMAIN tab \cup {name} |-> IF n = name THEN trace ELSE tab[n]],
     heap |-> IF name \in DOMAIN tab
              THEN SetTraceLevel(h, trace, GetTraceLevel(h, tab[name]))
              ELSE h,
     prev |-> GetTracerValue(tab, name)]

\* A round of the range that replaces the tracer of every key, "root" too.
CascadeOneSkipsNoKey(tab, h, r, k) ==
    setTracer(tab, CallAdapter(h, h[r].adapter).heap, k, CallAdapter(h, h[r].adapter).ref)

\* A round of the range that skips every key.
CascadeSkipsAll(tab, h, r, k) == [table |-> tab, heap |-> h, prev |-> Nil]

\* root.go 81-88: one round of the range over the table, for key k
CascadeOne(tab, h, r, k) ==
    IF k = "root" THEN [table |-> tab, heap |-> h, prev |-> Nil]
    ELSE LET made == CallAdapter(h, h[r].adapter)
         IN setTracer(tab, made.heap, k, made.ref)

\* root.go 80-89: the range over the table, in any order of the keys
CR_Cascade(S, t) ==
    IF S.loc[t].todo = {} THEN {Goto(S, t, <<"CR_ChildUnlock">>)}
    ELSE { LET c == CascadeOne(S.selectableTracers, S.heap, S.root, k)
           IN [S EXCEPT !.selectableTracers = c.table, !.heap = c.heap,
                        !.loc[t].todo = @ \ {k}]
           : k \in S.loc[t].todo }

\* root.go 77: childMx.Unlock()
CR_ChildUnlock(S, t) == {Goto(Unlock(S, "childMx", t), t, <<"CR_Unlock">>)}

\* root.go 65, 92: mx.Unlock(), return err
CR_Unlock(S, t) ==
    {Return(Unlock([S EXCEPT !.loc[t].ret = Nil, !.loc[t].err = FALSE], "mx", t), t)}

\* ---------------------------------------------------------- Teardown
\* root.go 273: mx.Lock()
TD_Lock(S, t) == {Goto(LockRequest(S, "mx", t), t, <<"TD_Acq">>)}

TD_Acq(S, t) ==
    IF CanLock(S, "mx") THEN {Goto(Lock(S, "mx", t), t, <<"TD_ChildLock">>)} ELSE {}

\* root.go 276: childMx.Lock()
TD_ChildLock(S, t) == {Goto(LockRequest(S, "childMx", t), t, <<"TD_ChildAcq">>)}

TD_ChildAcq(S, t) ==
    IF CanLock(S, "childMx") THEN {Goto(Lock(S, "childMx", t), t, <<"TD_Clear">>)} ELSE {}

\* A Teardown that leaves the table of named tracers in place.
TD_ClearKeepsTable(S, t) ==
    {Goto([S EXCEPT !.root = Nil, !.loc[t].sel = "nil"],
          t, EnterSetTraceSelector \o <<"TD_ChildUnlock">>)}

\* A Teardown that leaves the selector in place.
TD_ClearKeepsSelector(S, t) ==
    {Goto([S EXCEPT !.selectableTracers = EmptyTable, !.root = Nil], t, <<"TD_ChildUnlock">>)}

\* root.go 278-280: the table and the root are cleared, SetTraceSelector(nil)
TD_Clear(S, t) ==
    {Goto([S EXCEPT !.selectableTracers = EmptyTable, !.root = Nil, !.loc[t].sel = "nil"],
          t, EnterSetTraceSelector \o <<"TD_ChildUnlock">>)}

\* root.go 277: childMx.Unlock()
TD_ChildUnlock(S, t) == {Goto(Unlock(S, "childMx", t), t, <<"TD_Unlock">>)}

\* root.go 274: mx.Unlock()
TD_Unlock(S, t) == {Return(Unlock([S EXCEPT !.loc[t].ret = Nil], "mx", t), t)}

\* ------------------------------------------------------------- steps
\* The successor states of thread t's next step; none while it waits for
\* a lock.
Succ(S, t) ==
    LET p == PcOf(S, t) IN
    CASE p = "Root_RLock" -> Root_RLock(S, t)
      [] p = "Root_Check" -> Root_Check(S, t)
      [] p = "Once_Fast" -> Once_Fast(S, t)
      [] p = "Once_Lock" -> Once_Lock(S, t)
      [] p = "Once_Do" -> Once_Do(S, t)
      [] p = "Once_Write" -> Once_Write(S, t)
      [] p = "Root_Ret" -> Root_Ret(S, t)
      [] p = "GT_RLock" -> GT_RLock(S, t)
      [] p = "GT_Read" -> GT_Read(S, t)
      [] p = "GOC_Check" -> GOC_Check(S, t)
      [] p = "NT_Type" -> NT_Type(S, t)
      [] p = "NT_Lock" -> NT_Lock(S, t)
      [] p = "NT_Acq" -> NT_Acq(S, t)
      [] p = "NT_Store" -> NT_Store(S, t)
      [] p = "Sel_RLock" -> Sel_RLock(S, t)
      [] p = "Sel_Ret" -> Sel_Ret(S, t)
      [] p = "Emit" -> Emit(S, t)
      [] p = "STS_Lock" -> STS_Lock(S, t)
      [] p = "STS_Acq" -> STS_Acq(S, t)
      [] p = "STS_Set" -> STS_Set(S, t)
      [] p = "RTA_Lock" -> RTA_Lock(S, t)
      [] p = "RTA_Acq" -> RTA_Acq(S, t)
      [] p = "RTA_Store" -> RTA_Store(S, t)
      [] p = "GA_RLock" -> GA_RLock(S, t)
      [] p = "GA_Ret" -> GA_Ret(S, t)
      [] p = "CR_Opts" -> CR_Opts(S, t)
      [] p = "CR_Init" -> CR_Init(S, t)
      [] p = "CR_Lock" -> CR_Lock(S, t)
      [] p = "CR_Acq" -> CR_Acq(S, t)
      [] p = "CR_Install" -> CR_Install(S, t)
      [] p = "CR_ChildLock" -> CR_ChildLock(S, t)
      [] p = "CR_ChildAcq" -> CR_ChildAcq(S, t)
      [] p = "CR_Cascade" -> CR_Cascade(S, t)
      [] p = "CR_ChildUnlock" -> CR_ChildUnlock(S, t)
      [] p = "CR_Unlock" -> CR_Unlock(S, t)
      [] p = "TD_Lock" -> TD_Lock(S, t)
      [] p = "TD_Acq" -> TD_Acq(S, t)
      [] p = "TD_ChildLock" -> TD_ChildLock(S, t)
      [] p = "TD_ChildAcq" -> TD_ChildAcq(S, t)
      [] p = "TD_Clear" -> TD_Clear(S, t)
      [] p = "TD_ChildUnlock" -> TD_ChildUnlock(S, t)
      [] p = "TD_Unlock" -> TD_Unlock(S, t)
      [] OTHER -> {}

\* The states in which the call of thread t has returned to the client,
\* when t runs alone from S.
RECURSIVE Run(_, _)
Run(S, t) ==
    IF PcOf(S, t) = "Done" THEN {S}
    ELSE UNION {Run(S2, t) : S2 \in Succ(S, t)}

\* --------------------------------------------------- starting a call
\* Thread t calls c: the labels of entry are put on its stack.
Begin(S, t, c, entry, l) ==
    [S EXCEPT !.call[t] = c, !.loc[t] = l, !.stack[t] = entry \o <<"Done">>]

\* The tracers the program still refers to.
Referenced(S) ==
    {S.root, NoOpRef, NilBareRef}
        \cup {S.selectableTracers[n] : n \in DOMAIN S.selectableTracers}
        \cup UNION {{S.loc[u].ret, S.loc[u].ret2, S.loc[u].r, S.loc[u].trace, S.loc[u].rnew,
                      S.loc[u].bbt}
                       : u \in Threads}

\* A tracer the program no longer refers to cannot change what it does:
\* its fields are forgotten, its identity is kept.
Collect(S) ==
    [S EXCEPT !.heap = [i \in 1 .. Len(S.heap) |->
                           IF i \in Referenced(S) THEN S.heap[i] ELSE Plain("dead")]]

\* The call of thread t has returned: its frame is dropped.
Finish(S, t) ==
    Collect([S EXCEPT !.call[t] = NoCall, !.loc[t] = NoLoc, !.stack[t] = <<>>])

\* The calls a client can make.
RootCalls == {[NoCall EXCEPT !.op = "Root"]}
GetTracerCalls == {[NoCall EXCEPT !.op = "GetTracer", !.name = n] : n \in Names}
SelectCalls == {[NoCall EXCEPT !.op = "Select", !.name = n] : n \in Names}
GetOrCreateTracerCalls ==
    {[NoCall EXCEPT !.op = "GetOrCreateTracer", !.name = n] : n \in Names}
SetTraceSelectorCalls ==
    {[NoCall EXCEPT !.op = "SetTraceSelector", !.sel = s] : s \in {"nil", "trace2go"}}
RegisterTraceAdapterCalls ==
    {[NoCall EXCEPT !.op = "RegisterTraceAdapter", !.key = "go", !.adapter = f, !.replace = b]
        : f \in {"golog", "nil"}, b \in BOOLEAN}
GetAdapterFromConfigurationCalls ==
    {[NoCall EXCEPT !.op = "GetAdapterFromConfiguration", !.conf = c, !.key = k]
        : c \in Confs, k \in {"", "alt.adapter"}}
ConfigureRootCalls ==
    {[NoCall EXCEPT !.op = "ConfigureRoot", !.conf = c, !.prefix = p, !.opts = o]
        : c \in Confs, p \in Prefixes, o \in OptLists}
TeardownCalls == {[NoCall EXCEPT !.op = "Teardown"]}

\* gotestingadapter.go 219-225: the configuration QuickConfig builds for
\* the names sels
QuickConf(sels) ==
    [k \in {"tracing.adapter", "tracelevel.root"} \cup {"tracelevel." \o n : n \in sels} |->
        IF k = "tracing.adapter" THEN "test" ELSE "Debug"]

\* gotestingadapter.go 217-231: QuickConfig(t, sels...) is the calls
\* RegisterTraceAdapter("test", GetAdapter(t), true), ConfigureRoot(c,
\* "tracelevel", ReplaceTracers(true)), SetTraceSelector(trace2go.Selector())
QuickConfigSelectors == {{}, {"a"}}
QuickConfigCalls ==
    {[NoCall EXCEPT !.op = "QuickConfig", !.key = "test", !.adapter = "test",
                    !.replace = TRUE, !.conf = QuickConf(sels), !.prefix = "tracelevel",
                    !.opts = <<ReplaceTracers(TRUE)>>, !.sel = "trace2go"]
        : sels \in QuickConfigSelectors}
EnterQuickConfig ==
    EnterRegisterTraceAdapter \o EnterConfigureRoot \o EnterSetTraceSelector

\* The stack and the locals a call starts with.
EntryOf(c) ==
    CASE c.op = "Root" -> EnterRoot
      [] c.op = "GetTracer" -> EnterGetTracer
      [] c.op = "NewTracer" -> EnterNewTracer
      [] c.op = "Errorf" -> EnterFacade
      [] c.op = "QuickConfig" -> EnterQuickConfig
      [] c.op = "Select" -> EnterSelect
      [] c.op = "GetOrCreateTracer" -> EnterGetOrCreateTracer
      [] c.op = "SetTraceSelector" -> EnterSetTraceSelector
      [] c.op = "RegisterTraceAdapter" -> EnterRegisterTraceAdapter
      [] c.op = "GetAdapterFromConfiguration" -> EnterGetAdapterFromConfiguration
      [] c.op = "ConfigureRoot" -> EnterConfigureRoot
      [] c.op = "Teardown" -> EnterTeardown

LocOf(c) ==
    IF c.op = "GetAdapterFromConfiguration"
    THEN [NoLoc EXCEPT !.conf = c.conf, !.optKey = c.key]
    ELSE [NoLoc EXCEPT !.name = c.name, !.sel = c.sel, !.replace = c.replace]

\* ---------------------------------------------- Spec: calls in sequence
\* Thread t1 makes call c in state S and runs it to its return: the states
\* in which the call has returned, its results in the locals of t1.
Outcomes(S, c) == Run(Begin(S, "t1", c, EntryOf(c), LocOf(c)), "t1")

\* The step is the call that ended in S2.
Returns(S2) == Len(S2.heap) <= NilBareRef + MaxTracers /\ Install(Finish(S2, "t1"))

Root == \E c \in RootCalls : \E S2 \in Outcomes(Cur, c) : Returns(S2)
Select == \E c \in SelectCalls : \E S2 \in Outcomes(Cur, c) : Returns(S2)
GetOrCreateTracer ==
    \E c \in GetOrCreateTracerCalls : \E S2 \in Outcomes(Cur, c) : Returns(S2)
SetTraceSelector ==
    \E c \in SetTraceSelectorCalls : \E S2 \in Outcomes(Cur, c) : Returns(S2)
RegisterTraceAdapter ==
    \E c \in RegisterTraceAdapterCalls : \E S2 \in Outcomes(Cur, c) : Returns(S2)
GetAdapterFromConfiguration ==
    \E c \in GetAdapterFromConfigurationCalls : \E S2 \in Outcomes(Cur, c) : Returns(S2)
ConfigureRoot ==
    \E c \in ConfigureRootCalls : \E S2 \in Outcomes(Cur, c) : Returns(S2)
Teardown == \E c \in TeardownCalls : \E S2 \in Outcomes(Cur, c) : Returns(S2)
GetTracer == \E c \in GetTracerCalls : \E S2 \in Outcomes(Cur, c) : Returns(S2)
QuickConfig == \E c \in QuickConfigCalls : \E S2 \in Outcomes(Cur, c) : Returns(S2)

\* The tracers a client can hold: the root and the tracers of the table.
Handles == ({root} \cup {selectableTracers[n] : n \in DOMAIN selectableTracers}) \ {Nil}

\* Trace.SetTraceLevel called by a client on a tracer it holds.
ClientSetTraceLevel ==
    \E ref \in Handles, l \in Levels :
        /\ heap' = SetTraceLevel(heap, ref, l)
        /\ heap' # heap
        /\ UNCHANGED <<root, initRootDone, selectableTracers, selector,
                       knownTraceAdapters, locks, stack, call, loc>>
        /\ UNCHANGED tracerVars

\* The state of the packages when the program starts: no root, an empty
\* table, no selector, the registry holding the no-op adapter.
InitState ==
    [root |-> Nil, initRootDone |-> FALSE, selectableTracers |-> EmptyTable,
     selector |-> "nil", knownTraceAdapters |-> [k \in {"nop"} |-> "nop"],
     heap |-> <<Plain("nop"), Plain("nilbare")>>, locks |-> [l \in LockNames |-> FreeLock],
     stack |-> [t \in Threads |-> <<>>], call |-> [t \in Threads |-> NoCall],
     loc |-> [t \in Threads |-> NoLoc]]

StartIn(S) ==
    /\ root = S.root
    /\ initRootDone = S.initRootDone
    /\ selectableTracers = S.selectableTracers
    /\ selector = S.selector
    /\ knownTraceAdapters = S.knownTraceAdapters
    /\ heap = S.heap
    /\ locks = S.locks
    /\ stack = S.stack
    /\ call = S.call
    /\ loc = S.loc
    /\ tracer = New("nop", FALSE)
    /\ written = <<>>
    /\ globalTestingT = FALSE
    /\ levelString = <<>>
    /\ gtrace = [tracers |-> [i \in 1 .. Len(GlobalTracers) |-> "gtrace.nop"], err |-> "nil"]

Init == StartIn(InitState)

SeqNext ==
    \/ Root
    \/ Select
    \/ GetOrCreateTracer
    \/ SetTraceSelector
    \/ RegisterTraceAdapter
    \/ GetAdapterFromConfiguration
    \/ ConfigureRoot
    \/ Teardown
    \/ GetTracer
    \/ QuickConfig
    \/ ClientSetTraceLevel

Spec == Init /\ [][SeqNext]_vars

\* --------------------------- TracerSpec: a client calling Trace methods
\* A client takes a tracer and calls its methods in sequence; written holds
\* what the tracer has emitted since the client took it, at most
\* MaxMessages messages.
Kinds == {"golog", "test", "slog", "logrus", "bare", "nop"}
Writers == {"stderr", "buf"}
Keys == {"k"}

\* The client takes a new tracer: New() of an adapter package (with or
\* without a *testing.T for the testing tracer), the bare-bones tracer Root()
\* builds, or the no-op tracer.
TracerNew ==
    \E kind \in Kinds, t \in BOOLEAN :
        /\ t => kind = "test"
        /\ tracer' = New(kind, t)
        /\ written' = <<>>
        /\ UNCHANGED <<root, initRootDone, selectableTracers, selector, knownTraceAdapters,
                       heap, locks, stack, call, loc, globalTestingT, levelString, gtrace>>

TracerSetTraceLevel ==
    \E l \in Levels :
        /\ tracer' = SetLevel(tracer, l)
        /\ UNCHANGED <<root, initRootDone, selectableTracers, selector, knownTraceAdapters,
                       heap, locks, stack, call, loc, written, globalTestingT,
                       levelString, gtrace>>

TracerSetOutput ==
    \E w \in Writers :
        /\ tracer' = SetOutput(tracer, w)
        /\ UNCHANGED <<root, initRootDone, selectableTracers, selector, knownTraceAdapters,
                       heap, locks, stack, call, loc, written, globalTestingT,
                       levelString, gtrace>>

TracerP ==
    \E key \in Keys :
        /\ tracer' = P(tracer, key)
        /\ UNCHANGED <<root, initRootDone, selectableTracers, selector, knownTraceAdapters,
                       heap, locks, stack, call, loc, written, globalTestingT,
                       levelString, gtrace>>

\* Debugf, Infof or Errorf
TracerEmit ==
    \E l \in Levels :
        LET o == output(tracer, l, globalTestingT) IN
        /\ Len(written) + Len(o.msgs) <= MaxMessages
        /\ tracer' = o.tracer
        /\ written' = written \o o.msgs
        /\ UNCHANGED <<root, initRootDone, selectableTracers, selector, knownTraceAdapters,
                       heap, locks, stack, call, loc, globalTestingT, levelString, gtrace>>

\* gotestingadapter.RedirectTracing(t) and the teardown function it returns
RedirectTracing ==
    /\ globalTestingT' = ~globalTestingT
    /\ UNCHANGED <<root, initRootDone, selectableTracers, selector, knownTraceAdapters,
                   heap, locks, stack, call, loc, tracer, written, levelString, gtrace>>

TracerNext ==
    \/ TracerNew
    \/ TracerSetTraceLevel
    \/ TracerSetOutput
    \/ TracerP
    \/ TracerEmit
    \/ RedirectTracing

TracerSpec == Init /\ [][TracerNext]_vars

\* ------------------------ LevelSpec: a client parsing names of levels
\* The spellings of a word of lower-case letters in every letter case.
CaseVariants(w) ==
    {[i \in 1 .. Len(w) |-> IF m[i] THEN w[i] - 32 ELSE w[i]] : m \in [1 .. Len(w) -> BOOLEAN]}

\* The strings the client parses: "debug", "info", "error", "warn", "debu",
\* "infos" and "err" in every letter case, and "", " info", "info1", "1",
\* "İnfo" (with U+0130).
LevelStrings ==
    UNION {CaseVariants(w) : w \in {<<100, 101, 98, 117, 103>>, <<105, 110, 102, 111>>,
                                    <<101, 114, 114, 111, 114>>, <<119, 97, 114, 110>>,
                                    <<100, 101, 98, 117>>, <<105, 110, 102, 111, 115>>,
                                    <<101, 114, 114>>}}
        \cup {<<>>, <<32, 105, 110, 102, 111>>, <<105, 110, 102, 111, 49>>, <<49>>,
              <<304, 110, 102, 111>>}

\* The client reads the name of a level, e.g. from its configuration.
ReadLevelString ==
    \E cs \in LevelStrings :
        /\ levelString' = cs
        /\ UNCHANGED <<root, initRootDone, selectableTracers, selector, knownTraceAdapters,
                       heap, locks, stack, call, loc, tracer, written, globalTestingT, gtrace>>

\* tracer.SetTraceLevel(tracing.TraceLevelFromString(s)) on a new
\* gologadapter tracer, as rootTracer.init and NewTracer do (root.go 176, 237).
ParseLevelString ==
    /\ tracer' = SetLevel(New("golog", FALSE), TraceLevelFromRunes(levelString))
    /\ UNCHANGED <<root, initRootDone, selectableTracers, selector, knownTraceAdapters,
                   heap, locks, stack, call, loc, written, globalTestingT, levelString, gtrace>>

LevelNext ==
    \/ ReadLevelString
    \/ ParseLevelString

LevelSpec == Init /\ [][LevelNext]_vars

\* ===================================================== package gtrace
\* The adapters a client hands to CreateTracers: each makes tracers of one
\* kind, and either returns from every call (failsAt = 0) or panics in its
\* call number failsAt with the value given: an error value, the runtime
\* error of calling a nil function (a nil Adapter fails in its first call),
\* or nil, as in panic(nil).
AdapterKinds == {"golog", "test"}
PanicValues == {"error value", "runtime error", "nil"}
GtraceAdapters ==
    {[makes |-> k, failsAt |-> i, value |-> v] :
        k \in AdapterKinds, i \in 0 .. Len(GlobalTracers), v \in PanicValues}

\* What recover() returns for panic(nil) differs between the builds of the
\* Go runtime: nil (up to Go 1.20, or with GODEBUG panicnil=1), or a
\* *runtime.PanicNilError.
Builds == {"panicnil=1", "panicnil=0"}

\* part_000 81-88: the assignments, which end with the first call of newTrace
\* that panics
CreateTracersBody(g, a) ==
    LET n == IF a.failsAt = 0 THEN Len(GlobalTracers) ELSE a.failsAt - 1 IN
    [tracers |-> [i \in 1 .. Len(GlobalTracers) |-> IF i <= n THEN a.makes ELSE g[i]],
     panicking |-> a.failsAt # 0,
     value |-> a.value]

\* part_000 77: recover() in the deferred function
recover(b, build) ==
    IF ~b.panicking THEN "nil"
    ELSE IF b.value = "nil"
         THEN IF build = "panicnil=0" THEN "runtime.PanicNilError" ELSE "nil"
         ELSE b.value

\* part_000 75-90: CreateTracers(newTrace): the global tracers and the error
\* returned; the recover() of the deferred function ends every panic
CreateTracers(g, a, build) ==
    LET b == CreateTracersBody(g, a)
        r == recover(b, build)
    IN [tracers |-> b.tracers,
        err |-> IF r # "nil" THEN "unable to create global tracers" ELSE "nil",
        panics |-> FALSE]

\* err := gtrace.CreateTracers(adapter)
CallCreateTracers ==
    \E a \in GtraceAdapters, build \in Builds :
        /\ gtrace' = [tracers |-> CreateTracers(gtrace.tracers, a, build).tracers,
                      err |-> CreateTracers(gtrace.tracers, a, build).err]
        /\ UNCHANGED <<root, initRootDone, selectableTracers, selector, knownTraceAdapters,
                       heap, locks, stack, call, loc, tracer, written, globalTestingT,
                       levelString>>

GtraceSpec == Init /\ [][CallCreateTracers]_vars

\* ------------------------------------- ConcSpec: calls of two threads
\* The program makes at most MaxSetupCalls calls in sequence; then each
\* thread makes one call, and the steps of the two calls interleave.
AllCalls ==
    RootCalls \cup GetTracerCalls \cup SelectCalls \cup GetOrCreateTracerCalls
        \cup SetTraceSelectorCalls
        \cup RegisterTraceAdapterCalls \cup GetAdapterFromConfigurationCalls
        \cup ConfigureRootCalls \cup TeardownCalls

RECURSIVE SetupStates(_)
SetupStates(n) ==
    IF n = 0 THEN {InitState}
    ELSE LET R == SetupStates(n - 1)
         IN R \cup UNION {{Finish(S2, "t1") : S2 \in Outcomes(S, c)} : S \in R, c \in AllCalls}

ConcInit == \E S \in SetupStates(MaxSetupCalls) : StartIn(S)

\* The calls the threads make.
ConcNames == {"a"}
ConcConfs == {ConfGo, ConfNop}
ConcOptLists == {<<>>, <<ReplaceTracers(TRUE)>>}
ConcKeys == {"", "go"}
ConcCalls ==
    {c \in AllCalls : /\ c.name \in ConcNames \cup {""}
                      /\ c.conf \in ConcConfs \cup {ConfEmpty}
                      /\ c.opts \in ConcOptLists
                      /\ c.key \in ConcKeys
                      /\ ~c.replace}

\* Thread t has not made its call yet.
Idle(S, t) == S.stack[t] = <<>>
\* Thread t is inside its call.
Running(S, t) == PcOf(S, t) \notin {"idle", "Done"}

\* A thread whose call has returned keeps the results, not the rest of
\* its locals.
Settle(S, t) ==
    IF PcOf(S, t) = "Done"
    THEN [S EXCEPT !.loc[t] = [NoLoc EXCEPT !.ret = S.loc[t].ret, !.ret2 = S.loc[t].ret2,
                                            !.err = S.loc[t].err, !.panic = S.loc[t].panic]]
    ELSE S

\* The state in which thread t has started call c.
Started(t, c) ==
    IF Idle(Cur, t) /\ c \in ConcCalls
    THEN {Begin(Cur, t, c, EntryOf(c), LocOf(c))} ELSE {}

\* The states thread t's next step leads to, when it is at one of labels.
Moves(t, labels) ==
    IF PcOf(Cur, t) \in labels
    THEN {Collect(Settle(S2, t)) : S2 \in Succ(Cur, t)} ELSE {}

CallRoot == \E t \in Threads, c \in RootCalls : \E S2 \in Started(t, c) : Install(S2)
CallSelect == \E t \in Threads, c \in SelectCalls : \E S2 \in Started(t, c) : Install(S2)
CallGetOrCreateTracer ==
    \E t \in Threads, c \in GetOrCreateTracerCalls : \E S2 \in Started(t, c) : Install(S2)
CallSetTraceSelector ==
    \E t \in Threads, c \in SetTraceSelectorCalls : \E S2 \in Started(t, c) : Install(S2)
CallRegisterTraceAdapter ==
    \E t \in Threads, c \in RegisterTraceAdapterCalls : \E S2 \in Started(t, c) : Install(S2)
CallGetAdapterFromConfiguration ==
    \E t \in Threads, c \in GetAdapterFromConfigurationCalls :
        \E S2 \in Started(t, c) : Install(S2)
CallConfigureRoot ==
    \E t \in Threads, c \in ConfigureRootCalls : \E S2 \in Started(t, c) : Install(S2)
CallTeardown == \E t \in Threads, c \in TeardownCalls : \E S2 \in Started(t, c) : Install(S2)
CallGetTracer == \E t \in Threads, c \in GetTracerCalls : \E S2 \in Started(t, c) : Install(S2)

StepRoot ==
    \E t \in Threads :
        \E S2 \in Moves(t, {"Root_RLock", "Root_Check", "Once_Fast", "Once_Lock", "Once_Do",
                            "Once_Write", "Root_Ret"}) : Install(S2)
StepGetTracer == \E t \in Threads : \E S2 \in Moves(t, {"GT_RLock", "GT_Read"}) : Install(S2)
StepGetOrCreateTracer == \E t \in Threads : \E S2 \in Moves(t, {"GOC_Check"}) : Install(S2)
StepNewTracer ==
    \E t \in Threads :
        \E S2 \in Moves(t, {"NT_Type", "NT_Lock", "NT_Acq", "NT_Store"}) : Install(S2)
StepSelect == \E t \in Threads : \E S2 \in Moves(t, {"Sel_RLock", "Sel_Ret"}) : Install(S2)
StepEmit == \E t \in Threads : \E S2 \in Moves(t, {"Emit"}) : Install(S2)
StepSetTraceSelector ==
    \E t \in Threads : \E S2 \in Moves(t, {"STS_Lock", "STS_Acq", "STS_Set"}) : Install(S2)
StepRegisterTraceAdapter ==
    \E t \in Threads : \E S2 \in Moves(t, {"RTA_Lock", "RTA_Acq", "RTA_Store"}) : Install(S2)
StepGetAdapterFromConfiguration ==
    \E t \in Threads : \E S2 \in Moves(t, {"GA_RLock", "GA_Ret"}) : Install(S2)
StepConfigureRoot ==
    \E t \in Threads :
        \E S2 \in Moves(t, {"CR_Opts", "CR_Init", "CR_Lock", "CR_Acq", "CR_Install",
                            "CR_ChildLock", "CR_ChildAcq", "CR_Cascade", "CR_ChildUnlock",
                            "CR_Unlock"}) : Install(S2)
StepTeardown ==
    \E t \in Threads :
        \E S2 \in Moves(t, {"TD_Lock", "TD_Acq", "TD_ChildLock", "TD_ChildAcq", "TD_Clear",
                            "TD_ChildUnlock", "TD_Unlock"}) : Install(S2)

ConcNext ==
    \/ CallRoot
    \/ CallSelect
    \/ CallGetOrCreateTracer
    \/ CallSetTraceSelector
    \/ CallRegisterTraceAdapter
    \/ CallGetAdapterFromConfiguration
    \/ CallConfigureRoot
    \/ CallTeardown
    \/ CallGetTracer
    \/ StepRoot
    \/ StepGetTracer
    \/ StepGetOrCreateTracer
    \/ StepNewTracer
    \/ StepSelect
    \/ StepEmit
    \/ StepSetTraceSelector
    \/ StepRegisterTraceAdapter
    \/ StepGetAdapterFromConfiguration
    \/ StepConfigureRoot
    \/ StepTeardown

ConcSpec == ConcInit /\ [][ConcNext]_vars

\* ------------------------------------------------------------- claims
\* The claims about calls made in sequence are state predicates: in every
\* state the calls reach, the call the claim is about is made by t1 and run
\* to its return, and the claim is stated of the states it returns in.
T1Ret(S) == S.loc["t1"].ret
T1Err(S) == S.loc["t1"].err
T1Panic(S) == S.loc["t1"].panic
After(S) == Finish(S, "t1")

IsRootTracer(h, r) == r # Nil /\ h[r].isRoot
IsBareBones(h, r) == r # Nil /\ ~h[r].isRoot /\ h[r].kind = "bare"
TheRootCall == [NoCall EXCEPT !.op = "Root"]
GetOrCreateTracerCall(n) == [NoCall EXCEPT !.op = "GetOrCreateTracer", !.name = n]
SelectCall(n) == [NoCall EXCEPT !.op = "Select", !.name = n]

\* The calls that are neither ConfigureRoot, Teardown nor SetTraceSelector.
LookupCalls ==
    RootCalls \cup SelectCalls \cup GetOrCreateTracerCalls \cup RegisterTraceAdapterCalls

\* C1: with the trace2go selector installed, a Select(name) returns the
\* tracer instance the Select(name) before it returned, when they follow
\* each other directly or with one call of Root, Select, GetOrCreateTracer
\* or RegisterTraceAdapter between them.
SelectTwiceSameInstance ==
    selector = "trace2go" =>
        \A c \in SelectCalls : \A S2 \in Outcomes(Cur, c) :
            /\ \A S3 \in Outcomes(After(S2), c) : T1Ret(S3) = T1Ret(S2)
            /\ \A d \in LookupCalls : \A S3 \in Outcomes(After(S2), d) :
                   \A S4 \in Outcomes(After(S3), c) : T1Ret(S4) = T1Ret(S2)

\* A Select(name) of a name not in the table builds a tracer with the
\* adapter of a configured root, and the next Select(name) returns it.
SelectTwiceSameInstanceWitness ==
    /\ selector = "trace2go"
    /\ IsRootTracer(heap, root)
    /\ \E c \in SelectCalls : \E S2 \in Outcomes(Cur, c) :
          /\ c.name \notin DOMAIN selectableTracers
          /\ T1Ret(S2) > Len(heap)
          /\ \E S3 \in Outcomes(After(S2), c) : T1Ret(S3) = T1Ret(S2)

\* C2: after Teardown() has returned, the next Root() returns a
\* bare-bones tracer: not nil, and not the root of before the Teardown.
RootAfterTeardownIsBareBones ==
    \A c \in TeardownCalls : \A S2 \in Outcomes(Cur, c) :
        \A S3 \in Outcomes(After(S2), TheRootCall) :
            /\ IsBareBones(S3.heap, T1Ret(S3))
            /\ IsRootTracer(heap, root) => T1Ret(S3) # root

\* C3: in every state Root() and GetOrCreateTracer(name) return a tracer
\* that is not nil, and no call but ConfigureRoot fails.
AlwaysAUsableTracer ==
    /\ \A c \in RootCalls \cup GetOrCreateTracerCalls :
          \A S2 \in Outcomes(Cur, c) : T1Ret(S2) # Nil
    /\ \A c \in LookupCalls \cup SetTraceSelectorCalls \cup TeardownCalls :
          \A S2 \in Outcomes(Cur, c) : ~T1Err(S2) /\ ~T1Panic(S2)

\* Thread t is inside its call and cannot take its next step: the lock it
\* asks for is held, or a writer waits for it.
Blocked(S, t) == Running(S, t) /\ Succ(S, t) = {}

\* C4: no state is reached in which calls are blocked on the locks
\* forever, that is, in which a thread is blocked and every thread that is
\* inside a call is blocked (a lock is released by a thread inside a
\* call only): every call can return.
NoCallBlockedForever ==
    ~(/\ \E t \in Threads : Blocked(Cur, t)
      /\ \A t \in Threads : Running(Cur, t) => Blocked(Cur, t))

\* The calls of ConfigureRoot none of whose options fails, and those among
\* them with the option ReplaceTracers(true).
GoodConfigureRootCalls == {c \in ConfigureRootCalls : ~ApplyOpts(NoOpt, c.opts).err}
ReplacingCalls == {c \in GoodConfigureRootCalls : ApplyOpts(NoOpt, c.opts).replaceChildren}

\* Tracer ref of state S is one the adapter of root tracer r returns, and
\* the heap h of before the call did not hold it.
BuiltBy(S, ref, r) == ref # Nil /\ S.heap[ref].kind = S.heap[r].adapter
NewIn(h, ref) == ref > Len(h)

\* The calls by which a client looks up name n in state S.
LookupsOf(S, n) ==
    {GetOrCreateTracerCall(n)} \cup (IF S.selector = "trace2go" THEN {SelectCall(n)} ELSE {})

\* The level a tracer built with the adapter of the new root has after it
\* took the place of a tracer of level l: l for a tracer that keeps the
\* level set on it, Error always for the rest.
Inherited(S, ref, l) == IF KeepsLevel(S.heap, ref) THEN l ELSE LevelError

\* C5 (as stated): after ConfigureRoot(conf, prefix, ReplaceTracers(true))
\* every name of the table holds a tracer built by the adapter of the new
\* root whose level is the level the tracer of before had, and a later
\* Select or GetOrCreateTracer of the name returns it at that level.
CascadeKeepsLevels ==
    \A c \in ReplacingCalls : \A S2 \in Outcomes(Cur, c) :
        \A n \in DOMAIN selectableTracers :
            LET old == selectableTracers[n]
                new == GetTracerValue(S2.selectableTracers, n)
            IN /\ n # "root" => BuiltBy(S2, new, S2.root)
               /\ new # Nil
               /\ GetTraceLevel(S2.heap, new) = GetTraceLevel(heap, old)
               /\ \A d \in LookupsOf(S2, n) : \A S3 \in Outcomes(After(S2), d) :
                      /\ T1Ret(S3) = new
                      /\ GetTraceLevel(S3.heap, new) = GetTraceLevel(heap, old)

\* C5 (amended): the same for the tracers that keep the level set on them;
\* a no-op or bare-bones tracer that takes the place reports Error.
CascadeKeepsLevelsOfLevelKeepingTracers ==
    \A c \in ReplacingCalls : \A S2 \in Outcomes(Cur, c) :
        \A n \in DOMAIN selectableTracers :
            LET old == selectableTracers[n]
                new == GetTracerValue(S2.selectableTracers, n)
            IN /\ n # "root" => BuiltBy(S2, new, S2.root)
               /\ new # Nil
               /\ GetTraceLevel(S2.heap, new) = Inherited(S2, new, GetTraceLevel(heap, old))
               /\ \A d \in LookupsOf(S2, n) : \A S3 \in Outcomes(After(S2), d) :
                      /\ T1Ret(S3) = new
                      /\ GetTraceLevel(S3.heap, new)
                             = Inherited(S2, new, GetTraceLevel(heap, old))

\* A cascade puts a new tracer in the place of one whose level is not the
\* level the new configuration holds for its name, and the new one has the
\* level of the old one.
CascadeKeepsLevelsWitness ==
    \E c \in ReplacingCalls : \E S2 \in Outcomes(Cur, c) :
        \E n \in DOMAIN selectableTracers \ {"root"} :
            LET new == S2.selectableTracers[n] IN
            /\ NewIn(heap, new)
            /\ KeepsLevel(S2.heap, new)
            /\ getValue(c.conf, c.prefix, n) # ""
            /\ GetTraceLevel(S2.heap, new) = GetTraceLevel(heap, selectableTracers[n])
            /\ GetTraceLevel(S2.heap, new) # TraceLevelFromString(getValue(c.conf, c.prefix, n))

\* C6 (as stated): ConfigureRoot with ReplaceTracers(true) puts in the
\* place of every entry but "root" another instance, built by the adapter
\* of the new root, and leaves the set of names of the table as it was.
CascadeReplacesEveryEntry ==
    \A c \in ReplacingCalls : \A S2 \in Outcomes(Cur, c) :
        /\ DOMAIN S2.selectableTracers = DOMAIN selectableTracers
        /\ \A n \in DOMAIN selectableTracers \ {"root"} :
               /\ BuiltBy(S2, S2.selectableTracers[n], S2.root)
               /\ S2.selectableTracers[n] # selectableTracers[n]

\* C6 (amended): every entry but "root" holds a tracer built by the adapter
\* of the new root during the call, which is a new instance unless it is
\* the no-op tracer, all of whose values are equal; the names of before
\* are kept, and "root" may be added by the Debugf of the call.
CascadeReplacesEveryEntryByAdapterTracer ==
    \A c \in ReplacingCalls : \A S2 \in Outcomes(Cur, c) :
        /\ DOMAIN selectableTracers \subseteq DOMAIN S2.selectableTracers
        /\ DOMAIN S2.selectableTracers \subseteq DOMAIN selectableTracers \cup {"root"}
        /\ \A n \in DOMAIN selectableTracers \ {"root"} :
               /\ BuiltBy(S2, S2.selectableTracers[n], S2.root)
               /\ \/ NewIn(heap, S2.selectableTracers[n])
                  \/ S2.selectableTracers[n] = NoOpRef

\* A cascade over a table of two names besides which "root" is added, one
\* of the two tracers being replaced by a new instance.
CascadeReplacesEveryEntryWitness ==
    \E c \in ReplacingCalls : \E S2 \in Outcomes(Cur, c) :
        /\ Cardinality(DOMAIN selectableTracers \ {"root"}) >= 2
        /\ \E n \in DOMAIN selectableTracers \ {"root"} :
               /\ NewIn(heap, S2.selectableTracers[n])
               /\ S2.selectableTracers[n] # selectableTracers[n]

\* C7: a ConfigureRoot one of whose options fails returns the error and
\* leaves root, table and selector as they were; any other ConfigureRoot
\* returns no error and has installed the root tracer it built.
ConfigureRootFailsOrInstalls ==
    \A c \in ConfigureRootCalls : \A S2 \in Outcomes(Cur, c) :
        IF ApplyOpts(NoOpt, c.opts).err
        THEN /\ T1Err(S2)
             /\ S2.root = root
             /\ S2.selectableTracers = selectableTracers
             /\ S2.selector = selector
        ELSE /\ ~T1Err(S2)
             /\ ~T1Panic(S2)
             /\ IsRootTracer(S2.heap, S2.root)
             /\ NewIn(heap, S2.root)

\* C8: GetOrCreateTracer(name) returns the tracer stored under name when
\* there is one and then changes nothing; it never changes the entry or the
\* tracer of another name, and adds no name but name, whose entry is then
\* the tracer it returns.
GetOrCreateTracerOnlyInserts ==
    \A c \in GetOrCreateTracerCalls : \A S2 \in Outcomes(Cur, c) :
        /\ c.name \in DOMAIN selectableTracers =>
               /\ T1Ret(S2) = selectableTracers[c.name]
               /\ S2.selectableTracers = selectableTracers
        /\ \A n \in DOMAIN selectableTracers :
               /\ n \in DOMAIN S2.selectableTracers
               /\ S2.selectableTracers[n] = selectableTracers[n]
               /\ S2.heap[selectableTracers[n]] = heap[selectableTracers[n]]
        /\ DOMAIN S2.selectableTracers \subseteq DOMAIN selectableTracers \cup {c.name}
        /\ c.name \in DOMAIN S2.selectableTracers =>
               S2.selectableTracers[c.name] = T1Ret(S2)

\* GetOrCreateTracer returns the stored tracer of one name and adds a new
\* tracer for another.
GetOrCreateTracerOnlyInsertsWitness ==
    /\ \E c \in GetOrCreateTracerCalls : \E S2 \in Outcomes(Cur, c) :
          /\ c.name \in DOMAIN selectableTracers
          /\ T1Ret(S2) = selectableTracers[c.name]
    /\ \E c \in GetOrCreateTracerCalls : \E S2 \in Outcomes(Cur, c) :
          /\ c.name \notin DOMAIN selectableTracers
          /\ NewIn(heap, T1Ret(S2))
          /\ S2.selectableTracers[c.name] = T1Ret(S2)

\* The level a tracer has when the adapter returns it.
AdapterLevel(f) == GetTraceLevel(<<Plain(f)>>, Len(<<Plain(f)>>))

\* C9: the root tracer ConfigureRoot builds and the tracer
\* GetOrCreateTracer builds for a name have the level the adapter gave them
\* when the configuration holds no value under any of the three keys.
LevelLeftWhenNoKeyIsSet ==
    /\ \A c \in GoodConfigureRootCalls : \A S2 \in Outcomes(Cur, c) :
          (~T1Panic(S2) /\ getValue(c.conf, c.prefix, "root") = "")
              => GetTraceLevel(S2.heap, S2.root) = AdapterLevel(S2.heap[S2.root].adapter)
    /\ \A c \in GetOrCreateTracerCalls : \A S2 \in Outcomes(Cur, c) :
          (/\ IsRootTracer(heap, root)
           /\ c.name \notin DOMAIN selectableTracers
           /\ getValue(heap[root].config, heap[root].prefixKey, c.name) = "")
              => GetTraceLevel(S2.heap, T1Ret(S2)) = AdapterLevel(heap[root].adapter)

\* The value of the first of the keys prefix+name, prefix+"."+name,
\* prefix+"/"+name that is set to a non-empty string, "" when none is.
ProbedKeys(prefix, name) == <<prefix \o name, prefix \o "." \o name, prefix \o "/" \o name>>
FirstNonEmpty(conf, prefix, name) ==
    LET ks == ProbedKeys(prefix, name)
        hit == {i \in DOMAIN ks : GetString(conf, ks[i]) # ""}
    IN IF hit = {} THEN ""
       ELSE GetString(conf, ks[CHOOSE i \in hit : \A j \in hit : i <= j])

\* C10 (as stated): the level of the root tracer ConfigureRoot builds and
\* of the tracer GetOrCreateTracer builds for a name is that of the first
\* non-empty value among the three keys, in their order.
LevelIsOfFirstNonEmptyKey ==
    /\ \A c \in GoodConfigureRootCalls : \A S2 \in Outcomes(Cur, c) :
          (~T1Panic(S2) /\ FirstNonEmpty(c.conf, c.prefix, "root") # "")
              => GetTraceLevel(S2.heap, S2.root)
                     = TraceLevelFromString(FirstNonEmpty(c.conf, c.prefix, "root"))
    /\ \A c \in GetOrCreateTracerCalls : \A S2 \in Outcomes(Cur, c) :
          (/\ IsRootTracer(heap, root)
           /\ c.name \notin DOMAIN selectableTracers
           /\ FirstNonEmpty(heap[root].config, heap[root].prefixKey, c.name) # "")
              => GetTraceLevel(S2.heap, T1Ret(S2))
                     = TraceLevelFromString(
                           FirstNonEmpty(heap[root].config, heap[root].prefixKey, c.name))

\* C10 (amended): the same for the tracers that keep the level set on
\* them; a bare-bones or no-op tracer reports Error whatever the keys hold.
LevelSetIsOfFirstNonEmptyKey ==
    /\ \A c \in GoodConfigureRootCalls : \A S2 \in Outcomes(Cur, c) :
          (~T1Panic(S2) /\ FirstNonEmpty(c.conf, c.prefix, "root") # "")
              => GetTraceLevel(S2.heap, S2.root)
                     = Inherited(S2, S2.root,
                           TraceLevelFromString(FirstNonEmpty(c.conf, c.prefix, "root")))
    /\ \A c \in GetOrCreateTracerCalls : \A S2 \in Outcomes(Cur, c) :
          (/\ IsRootTracer(heap, root)
           /\ c.name \notin DOMAIN selectableTracers
           /\ FirstNonEmpty(heap[root].config, heap[root].prefixKey, c.name) # "")
              => GetTraceLevel(S2.heap, T1Ret(S2))
                     = Inherited(S2, T1Ret(S2),
                           TraceLevelFromString(
                               FirstNonEmpty(heap[root].config, heap[root].prefixKey, c.name)))

\* GetOrCreateTracer builds a tracer for a name of which two keys hold
\* values of different levels, and the tracer has the level of the first.
LevelSetIsOfFirstNonEmptyKeyWitness ==
    /\ IsRootTracer(heap, root)
    /\ \E c \in GetOrCreateTracerCalls : \E S2 \in Outcomes(Cur, c) :
          LET ks == ProbedKeys(heap[root].prefixKey, c.name)
              conf == heap[root].config
          IN /\ c.name \notin DOMAIN selectableTracers
             /\ KeepsLevel(S2.heap, T1Ret(S2))
             /\ \E i, j \in DOMAIN ks :
                    /\ i < j
                    /\ GetString(conf, ks[i]) # ""
                    /\ GetString(conf, ks[j]) # ""
                    /\ TraceLevelFromString(GetString(conf, ks[i]))
                           # TraceLevelFromString(GetString(conf, ks[j]))
                    /\ GetTraceLevel(S2.heap, T1Ret(S2))
                           = TraceLevelFromString(GetString(conf, ks[i]))

\* The adapter a call of GetAdapterFromConfiguration returned.
T1Fac(S) == S.loc["t1"].fac

\* The string the adapter is registered under, as the documentation of
\* GetAdapterFromConfiguration has it: conf[optKey] when optKey is not
\* empty, else conf["tracing.adapter"] when that is not empty, else
\* conf["tracing"].
DocumentedAdapterName(conf, optKey) ==
    IF optKey # "" THEN GetString(conf, optKey)
    ELSE IF GetString(conf, "tracing.adapter") # "" THEN GetString(conf, "tracing.adapter")
    ELSE GetString(conf, "tracing")

\* C11: GetAdapterFromConfiguration(conf, optKey) returns the adapter
\* registered under conf[optKey] when optKey is not empty, else the one
\* under conf["tracing.adapter"], else the one under conf["tracing"]; and
\* the root ConfigureRoot installs with the option AdapterKey(k) has the
\* adapter registered under conf[k].
AdapterIsLookedUpUnderOptKey ==
    /\ \A c \in GetAdapterFromConfigurationCalls : \A S2 \in Outcomes(Cur, c) :
          LET a == LookupAdapter(knownTraceAdapters, DocumentedAdapterName(c.conf, c.key))
          IN (~T1Panic(S2) /\ a # "nil") => T1Fac(S2) = a
    /\ \A c \in GoodConfigureRootCalls : \A S2 \in Outcomes(Cur, c) :
          LET k == ApplyOpts(NoOpt, c.opts).optAdapterKey
              a == LookupAdapter(knownTraceAdapters, DocumentedAdapterName(c.conf, k))
          IN (~T1Panic(S2) /\ a # "nil") => S2.heap[S2.root].adapter = a

\* C12: GetAdapterFromConfiguration returns an adapter that is not nil,
\* whatever the configuration and the registry hold: the adapter of the
\* bare-bones tracer when the string of the configuration is empty, not
\* set or not registered.
GetAdapterFromConfigurationNeverNil ==
    \A c \in GetAdapterFromConfigurationCalls : \A S2 \in Outcomes(Cur, c) :
        /\ ~T1Panic(S2)
        /\ T1Fac(S2) # "nil"
        /\ LookupAdapter(knownTraceAdapters, AdapterPackage(c.conf, c.key)) = "nil"
               => T1Fac(S2) = "bare"

\* The calls of ConfigureRoot in state S whose configuration names no
\* registered adapter.
UnresolvedCalls(S) ==
    {c \in GoodConfigureRootCalls :
        LookupAdapter(S.knownTraceAdapters,
                      AdapterPackage(c.conf, ApplyOpts(NoOpt, c.opts).optAdapterKey)) = "nil"}

\* Tracer ref behaves as a bare-bones tracer: its level is Error and
\* stays so.
ActsBareBones(h, ref) == ref # Nil /\ h[ref].kind = "bare" /\ GetTraceLevel(h, ref) = LevelError

\* C13: a ConfigureRoot whose configuration names no registered adapter
\* returns no error and installs a root that is a bare-bones tracer, and
\* the tracers built for names afterwards are bare-bones tracers too.
UnresolvedAdapterGivesBareBones ==
    \A c \in UnresolvedCalls(Cur) : \A S2 \in Outcomes(Cur, c) :
        /\ ~T1Err(S2)
        /\ ~T1Panic(S2)
        /\ IsRootTracer(S2.heap, S2.root)
        /\ NewIn(heap, S2.root)
        /\ ActsBareBones(S2.heap, S2.root)
        /\ \A n \in Names \ DOMAIN S2.selectableTracers :
               \A S3 \in Outcomes(After(S2), GetOrCreateTracerCall(n)) :
                   /\ ActsBareBones(S3.heap, T1Ret(S3))
                   /\ ~S3.heap[T1Ret(S3)].isRoot

\* C14: with the trace2go selector installed and a root installed by
\* ConfigureRoot, Select("root") returns the tracer instance Root()
\* returns, so that Debugf, Infof, Errorf and P of package tracing reach
\* the root tracer.
SelectRootIsRoot ==
    (selector = "trace2go" /\ IsRootTracer(heap, root)) =>
        \A S2 \in Outcomes(Cur, SelectCall("root")) :
            \A S3 \in Outcomes(After(S2), TheRootCall) :
                /\ T1Ret(S3) = root
                /\ T1Ret(S2) = T1Ret(S3)

\* The root is one ConfigureRoot installed with an adapter it found in the
\* registry, and the trace2go selector is installed.
ConfiguredWithRegisteredAdapter(S) ==
    /\ S.selector = "trace2go"
    /\ IsRootTracer(S.heap, S.root)
    /\ S.heap[S.root].adapter # "bare"

\* The level the configuration of the root holds for name n, "" for none.
ConfiguredLevel(S, n) == getValue(S.heap[S.root].config, S.heap[S.root].prefixKey, n)

\* C15 (as stated): after ConfigureRoot with a registered adapter and with
\* the trace2go selector installed, Select(name) of a name that is not in
\* the table returns a tracer built by the adapter of the root, whose level
\* is the level configured for the name, and stores it under the name.
SelectBuildsTracerOfConfiguredLevel ==
    ConfiguredWithRegisteredAdapter(Cur) =>
        \A n \in Names \ DOMAIN selectableTracers :
            \A S2 \in Outcomes(Cur, SelectCall(n)) :
                /\ BuiltBy(S2, T1Ret(S2), root)
                /\ GetTracerValue(S2.selectableTracers, n) = T1Ret(S2)
                /\ ConfiguredLevel(Cur, n) # ""
                       => GetTraceLevel(S2.heap, T1Ret(S2))
                              = TraceLevelFromString(ConfiguredLevel(Cur, n))

\* C15 (amended): the same, the level being the configured one for a
\* tracer that keeps the level set on it and Error for a no-op tracer.
SelectBuildsTracerSetToConfiguredLevel ==
    ConfiguredWithRegisteredAdapter(Cur) =>
        \A n \in Names \ DOMAIN selectableTracers :
            \A S2 \in Outcomes(Cur, SelectCall(n)) :
                /\ BuiltBy(S2, T1Ret(S2), root)
                /\ GetTracerValue(S2.selectableTracers, n) = T1Ret(S2)
                /\ ConfiguredLevel(Cur, n) # ""
                       => GetTraceLevel(S2.heap, T1Ret(S2))
                              = Inherited(S2, T1Ret(S2),
                                    TraceLevelFromString(ConfiguredLevel(Cur, n)))

\* Select builds a tracer for a name for which the configuration holds a
\* level other than the one the adapter gives, and the tracer has it.
SelectBuildsTracerSetToConfiguredLevelWitness ==
    /\ ConfiguredWithRegisteredAdapter(Cur)
    /\ \E n \in Names \ DOMAIN selectableTracers :
          \E S2 \in Outcomes(Cur, SelectCall(n)) :
              /\ NewIn(heap, T1Ret(S2))
              /\ S2.selectableTracers[n] = T1Ret(S2)
              /\ ConfiguredLevel(Cur, n) # ""
              /\ GetTraceLevel(S2.heap, T1Ret(S2)) = TraceLevelFromString(ConfiguredLevel(Cur, n))
              /\ GetTraceLevel(S2.heap, T1Ret(S2)) # AdapterLevel(heap[root].adapter)

\* Thread t has made the call of Root() and it has returned.
RootReturned(S, t) ==
    S.call[t].op = "Root" /\ PcOf(S, t) = "Done" /\ ~S.loc[t].panic

\* C16: when the two threads call Root() at the same time, both calls
\* return the same instance, which is not nil when no Teardown came
\* before: the bare-bones tracer is built once.
ConcurrentRootSameInstance ==
    (\A t \in Threads : RootReturned(Cur, t)) =>
        /\ \A t, u \in Threads : loc[t].ret = loc[u].ret
        /\ \A t \in Threads : loc[t].ret = root

\* The calls that are neither ConfigureRoot nor Teardown.
OtherCalls ==
    LookupCalls \cup SetTraceSelectorCalls \cup GetAdapterFromConfigurationCalls

\* C17: a ConfigureRoot that returns without error has installed a new
\* root, which the Root() after it returns; and while a root installed by
\* ConfigureRoot is in place, no call of Root, Select, GetOrCreateTracer,
\* RegisterTraceAdapter, SetTraceSelector or GetAdapterFromConfiguration
\* changes it: the Root() after such a call returns it still.
RootIsOfLatestConfigureRoot ==
    /\ \A c \in GoodConfigureRootCalls : \A S2 \in Outcomes(Cur, c) :
          ~T1Panic(S2) =>
              /\ ~T1Err(S2)
              /\ IsRootTracer(S2.heap, S2.root)
              /\ NewIn(heap, S2.root)
              /\ \A S3 \in Outcomes(After(S2), TheRootCall) : T1Ret(S3) = S2.root
    /\ IsRootTracer(heap, root) =>
          \A d \in OtherCalls : \A S2 \in Outcomes(Cur, d) :
              /\ S2.root = root
              /\ \A S3 \in Outcomes(After(S2), TheRootCall) :
                     T1Ret(S3) = root /\ S3.root = root

\* A ConfigureRoot puts a new root in the place of a configured one; a
\* Select after it builds a tracer, and the Root() after that returns the
\* new root.
RootIsOfLatestConfigureRootWitness ==
    /\ IsRootTracer(heap, root)
    /\ \E c \in GoodConfigureRootCalls : \E S2 \in Outcomes(Cur, c) :
          /\ ~T1Panic(S2)
          /\ S2.root # root
          /\ \E d \in SelectCalls : \E S3 \in Outcomes(After(S2), d) :
                /\ NewIn(S2.heap, T1Ret(S3))
                /\ \E S4 \in Outcomes(After(S3), TheRootCall) : T1Ret(S4) = S2.root

\* Thread t has made a call of ConfigureRoot with ReplaceTracers(true)
\* and it has returned without error.
ReplacingReturned(S, t) ==
    /\ S.call[t] \in ReplacingCalls
    /\ PcOf(S, t) = "Done"
    /\ ~S.loc[t].panic
    /\ ~S.loc[t].err

\* The states in which a call c that thread t makes after the calls of
\* the threads have returned has itself returned.
Afterwards(S, t, c) == Run(Begin(S, t, c, EntryOf(c), LocOf(c)), t)

\* C18: when a ConfigureRoot with ReplaceTracers(true) has returned, while
\* the other thread made no call or a call of GetOrCreateTracer or Select
\* that has returned too, every Select(name) made then, name not "root",
\* returns a tracer built by the adapter of the new root.  (A tracer of
\* the table is built by the adapter of a root ConfigureRoot installed:
\* a tracer of another adapter is one of a root configured before.)
SelectAfterCascadeIsOfNewRoot ==
    \A t \in Threads :
        (/\ ReplacingReturned(Cur, t)
         /\ selector = "trace2go"
         /\ \A u \in Threads \ {t} :
                /\ ~Running(Cur, u)
                /\ call[u].op \in {"none", "GetOrCreateTracer", "Select"})
        => \A n \in Names \ {"root"} :
               \A S2 \in Afterwards(Cur, t, SelectCall(n)) :
                   /\ IsRootTracer(S2.heap, S2.root)
                   /\ BuiltBy(S2, S2.loc[t].ret, S2.root)

\* Thread t is inside the range over the table of ConfigureRoot (root.go
\* 80-89), before or after any of its rounds.
CascadeInProgress(S, t) == PcOf(S, t) \in {"CR_Cascade", "CR_ChildUnlock"}

\* Thread t is at a statement that reads or writes the table: the read of
\* GetTracer, the store of NewTracer, the clearing of Teardown.
AtTableAccess(S, t) == PcOf(S, t) \in {"GT_Read", "NT_Store", "TD_Clear"}

\* C19: while a thread replaces the tracers of the table it holds childMx
\* in write mode and no other thread is at a read or a write of the
\* table: GetTracer, GetOrCreateTracer and Select see the table of before
\* the cascade or the one of after it.
NoTableAccessDuringCascade ==
    \A t \in Threads : CascadeInProgress(Cur, t) =>
        /\ locks["childMx"].w = t
        /\ locks["childMx"].r = {}
        /\ \A u \in Threads \ {t} : ~AtTableAccess(Cur, u)

\* A thread is in the middle of a cascade, a tracer of the table still to
\* be replaced, and the other thread waits for childMx to look a name up.
NoTableAccessDuringCascadeWitness ==
    \E t \in Threads : \E u \in Threads \ {t} :
        /\ PcOf(Cur, t) = "CR_Cascade"
        /\ loc[t].todo \ {"root"} # {}
        /\ PcOf(Cur, u) \in {"GT_RLock", "NT_Acq"}
        /\ Blocked(Cur, u)

\* The step is one of thread t.
StepOf(t) == stack'[t] # stack[t] \/ loc'[t] # loc[t] \/ call'[t] # call[t]

\* C20: a step that changes the selector, the root, the table of named
\* tracers or the registry of adapters is made by a thread that holds the
\* lock of that state in write mode: selectorMutex, mx, childMx,
\* adapterMutex.
WritesHoldTheWriteLock ==
    [][\A t \in Threads : StepOf(t) =>
           /\ selector' # selector => locks["selectorMutex"].w = t
           /\ root' # root => locks["mx"].w = t
           /\ selectableTracers' # selectableTracers => locks["childMx"].w = t
           /\ knownTraceAdapters' # knownTraceAdapters => locks["adapterMutex"].w = t]_vars

\* ------------------------------------------------------------ Teardown
TheTeardownCall == [NoCall EXCEPT !.op = "Teardown"]

\* The calls that install no selector: every call but SetTraceSelector of
\* a selector and QuickConfig.
NonInstallingCalls ==
    LookupCalls \cup GetTracerCalls \cup GetAdapterFromConfigurationCalls
        \cup ConfigureRootCalls \cup TeardownCalls
        \cup {c \in SetTraceSelectorCalls : c.sel = "nil"}

\* The call that ended in S returned the no-op tracer: the value
\* noOpTrace{}, which emits nothing and is of level Error.
ReturnedNoOp(S) ==
    /\ ~T1Panic(S)
    /\ T1Ret(S) = NoOpRef
    /\ S.heap[NoOpRef].kind = "nop"
    /\ GetTraceLevel(S.heap, NoOpRef) = LevelError

\* C21: after Teardown() has returned, whatever selector was installed
\* before it, Select(name) returns the no-op tracer (no emission, level
\* Error) for every name, "root" included; and it still does after any call
\* that installs no selector, so until SetTraceSelector installs one again.
SelectAfterTeardownIsNoOp ==
    \A S2 \in Outcomes(Cur, TheTeardownCall) :
        /\ ~T1Panic(S2)
        /\ S2.selector = "nil"
        /\ \A n \in Names : \A S3 \in Outcomes(After(S2), SelectCall(n)) : ReturnedNoOp(S3)
        /\ \A d \in NonInstallingCalls : \A S3 \in Outcomes(After(S2), d) :
              /\ S3.selector = "nil"
              /\ \A n \in Names : \A S4 \in Outcomes(After(S3), SelectCall(n)) :
                     ReturnedNoOp(S4)

\* The trace2go selector is installed and has handed out a named tracer;
\* Teardown returns, a ConfigureRoot follows, and the Select after it
\* returns the no-op tracer.
SelectAfterTeardownIsNoOpWitness ==
    /\ selector = "trace2go"
    /\ "a" \in DOMAIN selectableTracers
    /\ \E S2 \in Outcomes(Cur, TheTeardownCall) :
          /\ \E S3 \in Outcomes(After(S2), SelectCall("a")) : T1Ret(S3) = NoOpRef
          /\ \E d \in ConfigureRootCalls : \E S3 \in Outcomes(After(S2), d) :
                /\ IsRootTracer(S3.heap, S3.root)
                /\ \E S4 \in Outcomes(After(S3), SelectCall("root")) : T1Ret(S4) = NoOpRef

GetTracerCall(n) == [NoCall EXCEPT !.op = "GetTracer", !.name = n]

\* C22: after Teardown() has returned the table of named tracers is empty:
\* GetTracer(name) returns nil for every name, and a tracer that was handed
\* out for a name before the Teardown is not returned for it again.
TableIsEmptyAfterTeardown ==
    \A S2 \in Outcomes(Cur, TheTeardownCall) :
        /\ S2.selectableTracers = EmptyTable
        /\ \A n \in Names : \A S3 \in Outcomes(After(S2), GetTracerCall(n)) :
              ~T1Panic(S3) /\ T1Ret(S3) = Nil
        /\ \A n \in DOMAIN selectableTracers :
              selectableTracers[n] # Nil =>
                  \A c \in {GetOrCreateTracerCall(n), GetTracerCall(n)} :
                      \A S3 \in Outcomes(After(S2), c) : T1Ret(S3) # selectableTracers[n]

\* The table holds tracers for two names, GetTracer returns one of them;
\* Teardown returns, and GetTracer returns nil for the name.
TableIsEmptyAfterTeardownWitness ==
    /\ {"a", "b"} \subseteq DOMAIN selectableTracers
    /\ selectableTracers["a"] # Nil
    /\ \E S1 \in Outcomes(Cur, GetTracerCall("a")) : T1Ret(S1) = selectableTracers["a"]
    /\ \E S2 \in Outcomes(Cur, TheTeardownCall) :
          /\ \E S3 \in Outcomes(After(S2), GetTracerCall("a")) : T1Ret(S3) = Nil
          /\ \E S3 \in Outcomes(After(S2), GetOrCreateTracerCall("a")) : ~T1Panic(S3)

\* ------------------------------------------------- RegisterTraceAdapter
\* Registrations of every factory under a key with and without an entry.
RegistrationCalls ==
    {[NoCall EXCEPT !.op = "RegisterTraceAdapter", !.key = k, !.adapter = f, !.replace = b]
        : k \in {"go", "nop"}, f \in {"nil", "nop", "golog", "test"}, b \in BOOLEAN}

\* The registry S2 is the registry known after key was bound by the rule
\* of RegisterTraceAdapter(key, f, replace).
BoundByRule(known, S2, c) ==
    /\ c.key \in DOMAIN S2.knownTraceAdapters
    /\ S2.knownTraceAdapters[c.key] =
          IF c.key \notin DOMAIN known \/ known[c.key] = "nil" \/ c.replace
          THEN c.adapter ELSE known[c.key]
    /\ DOMAIN S2.knownTraceAdapters \ {c.key} = DOMAIN known \ {c.key}
    /\ \A k \in DOMAIN known \ {c.key} : S2.knownTraceAdapters[k] = known[k]

\* C23: RegisterTraceAdapter(key, f, replace) binds key to f when key has
\* no entry, or its entry is nil, or replace is true, and keeps the binding
\* of key otherwise; the bindings of the other keys are unchanged; so with
\* replace = false the first non-nil registration for a key stays bound
\* whatever is registered for it later.
RegisterBindsByRule ==
    \A c \in RegistrationCalls : \A S2 \in Outcomes(Cur, c) :
        /\ BoundByRule(knownTraceAdapters, S2, c)
        /\ (c.adapter # "nil" /\ S2.knownTraceAdapters[c.key] = c.adapter) =>
              \A d \in RegistrationCalls : (d.key = c.key /\ ~d.replace) =>
                  \A S3 \in Outcomes(After(S2), d) :
                      c.key \in DOMAIN S3.knownTraceAdapters
                          /\ S3.knownTraceAdapters[c.key] = c.adapter

\* ------------------------------------------------------ no selector
\* The tracer object ref of the heap h, as the client that holds it sees
\* it: a tracer of its kind and level, writing where a new tracer writes.
TracerOf(h, ref) ==
    [New(h[ref].kind, h[ref].kind = "test") EXCEPT
        !.level = IF h[ref].kind \in {"golog", "test"} THEN h[ref].level ELSE @]

\* C24: while no selector is installed (at the start, or after
\* SetTraceSelector(nil)), Select(name) returns the no-op tracer for every
\* name, "root" included; so the package-level Debugf, Infof and Errorf,
\* which call the method on Select("root"), emit nothing, also after
\* SetOutput(buf) was called on the tracer Select returned.
NoSelectorSelectsNoOp ==
    selector = "nil" =>
        \A n \in Names : \A S2 \in Outcomes(Cur, SelectCall(n)) :
            /\ ReturnedNoOp(S2)
            /\ S2.selector = "nil"
            /\ \A w \in Writers, l \in Levels, g \in BOOLEAN :
                  /\ output(SetOutput(TracerOf(S2.heap, T1Ret(S2)), w), l, g).msgs = <<>>
                  /\ \A S3 \in Outcomes(After(S2), SelectCall("root")) :
                        /\ ReturnedNoOp(S3)
                        /\ output(TracerOf(S3.heap, T1Ret(S3)), l, g).msgs = <<>>

\* SetTraceSelector(nil) has taken the trace2go selector away, over a
\* configured root and a table that holds a tracer for "a"; Select("a")
\* and Select("root") return the no-op tracer.
NoSelectorSelectsNoOpWitness ==
    /\ selector = "trace2go"
    /\ IsRootTracer(heap, root)
    /\ "a" \in DOMAIN selectableTracers
    /\ \E c \in SetTraceSelectorCalls : \E S1 \in Outcomes(Cur, c) :
          /\ S1.selector = "nil"
          /\ \E S2 \in Outcomes(After(S1), SelectCall("a")) :
                /\ T1Ret(S2) = NoOpRef
                /\ \E S3 \in Outcomes(After(S2), SelectCall("root")) : T1Ret(S3) = NoOpRef
    /\ \E S2 \in Outcomes(Cur, SelectCall("a")) : T1Ret(S2) # NoOpRef

\* ---------------------------------------------------- one selector
\* Thread t has made a call of SetTraceSelector and it has returned.
SelectorReturned(S, t) == S.call[t].op = "SetTraceSelector" /\ PcOf(S, t) = "Done"

\* What a call that ended in S gave: its result and the state of trace2go.
GivenBy(S, t) ==
    [ret |-> S.loc[t].ret, panic |-> S.loc[t].panic, root |-> S.root,
     selectableTracers |-> S.selectableTracers, heap |-> S.heap]

\* A Select(n) that thread t makes in state S delegates to the selector sel:
\* it gives the no-op tracer when sel is nil, and what GetOrCreateTracer(n),
\* the Select of the trace2go selector, gives when sel is that selector.
DelegatesTo(S, t, n, sel) ==
    IF sel = "nil"
    THEN \A S2 \in Afterwards(S, t, SelectCall(n)) :
             S2.loc[t].ret = NoOpRef /\ ~S2.loc[t].panic
    ELSE {GivenBy(S2, t) : S2 \in Afterwards(S, t, SelectCall(n))}
            = {GivenBy(S2, t) : S2 \in Afterwards(S, t, GetOrCreateTracerCall(n))}

\* C25: one selector is active at any time.  When a SetTraceSelector(sel)
\* has returned and the other thread makes no call of SetTraceSelector or
\* Teardown, sel is the selector, whatever Select the other thread is in;
\* and once the other thread is in no call, every Select(name) started then
\* delegates to sel.  When both threads have returned from SetTraceSelector
\* the selector is the one of one of the two calls, and every Select(name)
\* started then delegates to it.
SelectDelegatesToLatestSelector ==
    \A t \in Threads :
        SelectorReturned(Cur, t) =>
            \A u \in Threads \ {t} :
                /\ call[u].op \notin {"SetTraceSelector", "Teardown"} =>
                      /\ selector = call[t].sel
                      /\ ~Running(Cur, u) =>
                            \A n \in Names : DelegatesTo(Cur, t, n, call[t].sel)
                /\ SelectorReturned(Cur, u) =>
                      /\ selector \in {call[t].sel, call[u].sel}
                      /\ \A n \in Names : DelegatesTo(Cur, t, n, selector)

\* A SetTraceSelector(trace2go.Selector()) has returned while the other
\* thread made a Select that returned the no-op tracer of the time with
\* no selector; the Select made now returns a tracer of trace2go.
SelectDelegatesToLatestSelectorWitness ==
    \E t \in Threads : \E u \in Threads \ {t} :
        /\ SelectorReturned(Cur, t)
        /\ call[t].sel = "trace2go"
        /\ call[u].op = "Select"
        /\ PcOf(Cur, u) = "Done"
        /\ loc[u].ret = NoOpRef
        /\ \E S2 \in Afterwards(Cur, t, SelectCall("a")) :
              S2.loc[t].ret \notin {Nil, NoOpRef} /\ ~S2.loc[t].panic

\* ------------------------------------------------- the Trace methods
\* The tracers the client can hold after one call, on tr, of a Trace
\* method other than SetTraceLevel.
AfterMethodCall(tr, g) ==
    {SetOutput(tr, w) : w \in Writers}
        \cup {P(tr, k) : k \in Keys}
        \cup {output(tr, l, g).tracer : l \in Levels}

\* The tracers set to level l that the client can hold next: the tracer
\* right after SetTraceLevel(l), and after one more call of another method.
SetTo(l) ==
    {SetLevel(tracer, l)} \cup AfterMethodCall(SetLevel(tracer, l), globalTestingT)

\* The call of the method of level l on tr emits one message, of level l.
EmitsAt(tr, l) ==
    LET o == output(tr, l, globalTestingT)
    IN Len(o.msgs) = 1 /\ o.msgs[1].level = l

\* C26 as stated: for a tracer of gologadapter, gotestingadapter or
\* goslogadapter and levels L1 < L2 (Error < Info < Debug), the tracer set
\* to L1 emits nothing for the method of L2 and the tracer set to L2 emits
\* the message of the method of L1, also after calls of other methods that
\* follow the SetTraceLevel.
LevelFilters ==
    tracer.kind \in {"golog", "test", "slog"} =>
        \A l1, l2 \in Levels : l1 < l2 =>
            /\ \A tr \in SetTo(l1) : output(tr, l2, globalTestingT).msgs = <<>>
            /\ \A tr \in SetTo(l2) : EmitsAt(tr, l1)

\* The tracer has somewhere to write to: every tracer but a testing tracer
\* with no *testing.T bound, while globalTestingT is not set.
HasSink(tr) == tr.kind = "test" => (tr.t \/ globalTestingT)

\* C26: for a tracer of gologadapter, gotestingadapter or goslogadapter
\* and levels L1 < L2, the tracer set to L1 emits nothing for the method of
\* L2; the tracer set to L2 emits the message of the method of L1 when it
\* has a *testing.T to log to or is none of gotestingadapter, and emits
\* nothing at any level when it is a testing tracer without one; this holds
\* for every call after the SetTraceLevel.
LevelFiltersWhereThereIsASink ==
    tracer.kind \in {"golog", "test", "slog"} =>
        /\ \A l1, l2 \in Levels : l1 < l2 =>
              /\ \A tr \in SetTo(l1) : output(tr, l2, globalTestingT).msgs = <<>>
              /\ \A tr \in SetTo(l2) : HasSink(tr) => EmitsAt(tr, l1)
        /\ \A l1, l2 \in Levels : \A tr \in SetTo(l1) :
              ~HasSink(tr) => output(tr, l2, globalTestingT).msgs = <<>>
        /\ \A l \in Levels : \A tr \in SetTo(l) : GetLevel(tr) = l

\* A testing tracer bound to a *testing.T was set to Info: it has emitted
\* the messages of Errorf and Infof and emits nothing for Debugf.
LevelFiltersWitness ==
    /\ tracer.kind = "test"
    /\ tracer.t
    /\ GetLevel(tracer) = LevelInfo
    /\ Len(written) = 2
    /\ written[1].level = LevelError
    /\ written[2].level = LevelInfo
    /\ output(tracer, LevelDebug, globalTestingT).msgs = <<>>

\* C27: for a tracer built by the factory of gologadapter, gotestingadapter,
\* goslogadapter or logrusadapter, in whatever state earlier calls of
\* SetTraceLevel, SetOutput, P, Debugf, Infof and Errorf have left it, and
\* for every level L of Error, Info, Debug: GetTraceLevel() after
\* SetTraceLevel(L) returns L.
TraceLevelRoundtrip ==
    tracer.kind \in {"golog", "test", "slog", "logrus"} =>
        \A l \in Levels :
            /\ GetLevel(SetLevel(tracer, l)) = l
            /\ \A tr \in AfterMethodCall(tracer, globalTestingT) : GetLevel(SetLevel(tr, l)) = l

\* A logrus tracer that was set to Debug, whose output was redirected, which
\* has emitted a message and holds a context: set to Error it returns Error.
TraceLevelRoundtripWitness ==
    /\ tracer.kind = "logrus"
    /\ tracer.out = "buf"
    /\ tracer.p # ""
    /\ Len(written) >= 1
    /\ GetLevel(tracer) = LevelDebug
    /\ GetLevel(SetLevel(tracer, LevelError)) = LevelError

\* C28: Root() with no root configured returns a bare-bones tracer; on a
\* bare-bones tracer, in whatever state earlier calls have left it, after
\* SetOutput(buf) Errorf(msg) writes msg to buf and nothing else, Infof and
\* Debugf write nothing, P returns the same tracer unchanged, SetTraceLevel
\* changes nothing and GetTraceLevel returns Error.
BareBonesRootOnlyWritesErrors ==
    /\ ~IsRootTracer(heap, root) /\ ~initRootDone =>
          \A S2 \in Outcomes(Cur, TheRootCall) :
              /\ ~T1Panic(S2)
              /\ IsBareBones(S2.heap, T1Ret(S2))
              /\ TracerOf(S2.heap, T1Ret(S2)) = New("bare", FALSE)
    /\ tracer.kind = "bare" =>
          LET tr == SetOutput(tracer, "buf")
              g == globalTestingT
          IN /\ output(tr, LevelError, g).msgs =
                    <<[to |-> "buf", level |-> LevelError, ctx |-> "", text |-> "msg"]>>
             /\ output(tr, LevelInfo, g).msgs = <<>>
             /\ output(tr, LevelDebug, g).msgs = <<>>
             /\ \A l \in Levels : output(tr, l, g).tracer = tr
             /\ \A k \in Keys : P(tr, k) = tr
             /\ \A l \in Levels : SetLevel(tr, l) = tr /\ GetLevel(SetLevel(tr, l)) = LevelError
             /\ GetLevel(tr) = LevelError
             /\ \A i \in 1 .. Len(written) : written[i].level = LevelError

\* The bare-bones tracer has written an error to the standard error stream
\* and, after SetOutput(buf), one to buf.
BareBonesRootOnlyWritesErrorsWitness ==
    /\ tracer.kind = "bare"
    /\ tracer.out = "buf"
    /\ Len(written) = 2
    /\ written[1].to = "stderr"
    /\ written[2].to = "buf"
    /\ written[2].text = "msg"

\* A call on tr of a Trace method other than P: the tracer after it and
\* the messages it emitted.
CallsOtherThanP(tr, g) ==
    {output(tr, l, g) : l \in Levels}
        \cup {[tracer |-> SetLevel(tr, l), msgs |-> <<>>] : l \in Levels}
        \cup {[tracer |-> SetOutput(tr, w), msgs |-> <<>>] : w \in Writers}

\* The sequences of messages that n calls other than P, made on tr one
\* after the other, can emit.
RECURSIVE MessagesOf(_, _, _)
MessagesOf(tr, g, n) ==
    IF n = 0 THEN {<<>>}
    ELSE UNION {{r.msgs \o ms : ms \in MessagesOf(r.tracer, g, n - 1)}
                  : r \in CallsOtherThanP(tr, g)}

\* C29: on a tracer of gotestingadapter or logrusadapter, the context set
\* by P(key, value) is attached to the first message emitted after it and to
\* no later one, whatever calls other than P follow the P.
ContextGoesToNextMessageOnly ==
    tracer.kind \in {"test", "logrus"} =>
        \A k \in Keys : \A ms \in MessagesOf(P(tracer, k), globalTestingT, MaxCallsAfterP) :
            \A i \in 1 .. Len(ms) : ms[i].ctx = IF i = 1 THEN k ELSE ""

\* ------------------------------------------------------- QuickConfig
\* The names listed in a call of QuickConfig.
ListedNames(c) == {n \in Names \ {"root"} : ("tracelevel." \o n) \in DOMAIN c.conf}

\* C30: after QuickConfig(t, names...) has returned, whatever root and
\* named tracers there were before, the root is a configured root of level
\* Debug and Select(n) returns a tracer of level Debug for every listed
\* name n; the function it returns, Teardown, clears root, table and
\* selector.
QuickConfigSetsDebug ==
    \A c \in QuickConfigCalls : \A S2 \in Outcomes(Cur, c) :
        /\ ~T1Panic(S2)
        /\ ~T1Err(S2)
        /\ S2.selector = "trace2go"
        /\ IsRootTracer(S2.heap, S2.root)
        /\ GetTraceLevel(S2.heap, S2.root) = LevelDebug
        /\ \A n \in ListedNames(c) : \A S3 \in Outcomes(After(S2), SelectCall(n)) :
              /\ ~T1Panic(S3)
              /\ T1Ret(S3) # Nil
              /\ GetTraceLevel(S3.heap, T1Ret(S3)) = LevelDebug
        /\ \A S3 \in Outcomes(After(S2), TheTeardownCall) :
              /\ S3.root = Nil
              /\ S3.selectableTracers = EmptyTable
              /\ S3.selector = "nil"

\* ------------------------------------------------ TraceLevelFromString
\* C31: TraceLevelFromString maps "debug", "info" and "error" in any
\* letter case to LevelDebug, LevelInfo and LevelError and every other
\* string, the empty one included, to LevelInfo; it gives a level for every
\* string, and the tracer set to the level parsed from the string the client
\* has read is of that level.
TraceLevelFromStringParsesAnyCase ==
    /\ \A cs \in LevelStrings :
          TraceLevelFromRunes(cs) =
              IF cs \in CaseVariants(<<100, 101, 98, 117, 103>>) THEN LevelDebug
              ELSE IF cs \in CaseVariants(<<101, 114, 114, 111, 114>>) THEN LevelError
              ELSE LevelInfo
    /\ \A cs \in CaseVariants(<<105, 110, 102, 111>>) : TraceLevelFromRunes(cs) = LevelInfo
    /\ TraceLevelFromRunes(<<>>) = LevelInfo
    /\ TraceLevelFromRunes(levelString) \in Levels
    /\ tracer.kind = "golog" =>
          \E cs \in LevelStrings : GetLevel(tracer) = TraceLevelFromRunes(cs)

\* The client has read "DeBuG" and the tracer set to the level parsed
\* from it is of level Debug.
TraceLevelFromStringParsesAnyCaseWitness ==
    /\ levelString = <<68, 101, 66, 117, 71>>
    /\ tracer.kind = "golog"
    /\ GetLevel(tracer) = LevelDebug

\* ------------------------------------------------ no nil table entries
\* C32: in every reachable state the table of named tracers holds no nil
\* value, so that GetTracer(name) returns nil exactly when name is not a
\* key of the table (the adapters return non-nil tracers).
TableHoldsNoNil ==
    /\ \A n \in DOMAIN selectableTracers :
          /\ selectableTracers[n] \notin {Nil, NilBareRef}
          /\ selectableTracers[n] \in 1 .. Len(heap)
    /\ (\A t \in Threads : stack[t] = <<>>) =>
          \A n \in Names : \A S2 \in Outcomes(Cur, GetTracerCall(n)) :
              /\ ~T1Panic(S2)
              /\ T1Ret(S2) = Nil <=> n \notin DOMAIN selectableTracers
              /\ n \in DOMAIN selectableTracers => T1Ret(S2) = selectableTracers[n]

\* A state with a stored tracer and an absent name: GetTracer returns the one
\* and nil for the other.
TableHoldsNoNilWitness ==
    /\ "a" \in DOMAIN selectableTracers
    /\ "b" \notin DOMAIN selectableTracers
    /\ \A t \in Threads : stack[t] = <<>>
    /\ \E S2 \in Outcomes(Cur, GetTracerCall("a")) : T1Ret(S2) = selectableTracers["a"] /\ T1Ret(S2) # Nil
    /\ \E S2 \in Outcomes(Cur, GetTracerCall("b")) : T1Ret(S2) = Nil

\* ------------------------------------------------ gtrace.CreateTracers
\* C33: gtrace.CreateTracers(adapter) never propagates a panic raised by a
\* call of the adapter: it returns a non-nil error instead, and it returns
\* nil when all eight global tracers were created.
CreateTracersConvertsPanics ==
    \A a \in GtraceAdapters, build \in Builds :
        LET r == CreateTracers(gtrace.tracers, a, build) IN
        /\ ~r.panics
        /\ a.failsAt # 0 => r.err # "nil"
        /\ a.failsAt = 0 =>
              /\ r.err = "nil"
              /\ \A i \in 1 .. Len(GlobalTracers) : r.tracers[i] = a.makes

\* ------------------------------------- concurrent GetOrCreateTracer
\* Thread t made a GetOrCreateTracer(n), or a Select(n) through the
\* trace2go selector, and the call has returned.
LookedUp(S, t, n) ==
    /\ S.call[t] \in LookupsOf(S, n)
    /\ PcOf(S, t) = "Done"
    /\ ~S.loc[t].panic

\* C34: when the two threads have called GetOrCreateTracer(name) or
\* Select(name) concurrently, with a configured root, both have received
\* the one instance that is stored under name: no caller holds an instance
\* that is not in the table.
ConcurrentLookupsGetStoredInstance ==
    \A n \in Names :
        (/\ IsRootTracer(heap, root)
         /\ \A t \in Threads : LookedUp(Cur, t, n))
        => /\ n \in DOMAIN selectableTracers
           /\ \A t \in Threads : loc[t].ret = selectableTracers[n]

\* ------------------------------------------------- no re-entrant locking
\* The lock the statement at label pc asks for, "" when it asks for none:
\* Root (root.go 44), sync.Once, GetTracer (206), NewTracer (240), Select
\* (tracing.go 151), SetTraceSelector (131), RegisterTraceAdapter (177),
\* GetAdapterFromConfiguration (201), ConfigureRoot (root.go 64, 76),
\* Teardown (273, 276).
AsksFor(pc) ==
    CASE pc \in {"Root_RLock", "CR_Lock", "CR_Acq", "TD_Lock", "TD_Acq"} -> "mx"
      [] pc \in {"Once_Lock"} -> "once"
      [] pc \in {"GT_RLock", "NT_Lock", "NT_Acq", "CR_ChildLock", "CR_ChildAcq",
                 "TD_ChildLock", "TD_ChildAcq"} -> "childMx"
      [] pc \in {"Sel_RLock", "STS_Lock", "STS_Acq"} -> "selectorMutex"
      [] pc \in {"RTA_Lock", "RTA_Acq", "GA_RLock"} -> "adapterMutex"
      [] OTHER -> ""

\* Thread t holds lock l, for reading or for writing.
Holds(S, t, l) == S.locks[l].w = t \/ t \in S.locks[l].r

\* The locks thread t holds.
HeldBy(S, t) == {l \in LockNames : Holds(S, t, l)}

\* C35: no thread asks for a lock it holds already, in any operation: not
\* in the tracer calls of the cascade, nor in the facade calls that
\* RegisterTraceAdapter and GetAdapterFromConfiguration make under the
\* registry lock, nor in the SetTraceSelector of Teardown.
NoThreadLocksTwice ==
    \A t \in Threads :
        /\ AsksFor(PcOf(Cur, t)) \notin HeldBy(Cur, t)
        /\ \A l \in LockNames : ~(locks[l].w = t /\ t \in locks[l].r)
        /\ \A l \in LockNames : t \in locks[l].ww => ~Holds(Cur, t, l)

\* One thread is in the Infof of RegisterTraceAdapter, under the registry
\* lock, the other in the SetTraceSelector of Teardown, under mx and
\* childMx.
NoThreadLocksTwiceWitness ==
    \E t \in Threads : \E u \in Threads \ {t} :
        /\ call[t].op = "RegisterTraceAdapter"
        /\ HeldBy(Cur, t) = {"adapterMutex"}
        /\ AsksFor(PcOf(Cur, t)) = "selectorMutex"
        /\ call[u].op = "Teardown"
        /\ HeldBy(Cur, u) = {"mx", "childMx"}
        /\ AsksFor(PcOf(Cur, u)) = "selectorMutex"

\* ----------------------------------------------------------- NewTracer
NewTracerCall(n, b) == [NoCall EXCEPT !.op = "NewTracer", !.name = n, !.replace = b]

\* C36: with a configured root, NewTracer(name, replace) returns as its
\* first result the tracer that the table holds for name after the call and
\* as its second the tracer the table held for name before it, nil if
\* none; with replace false an entry stays in place, with replace true it
\* is replaced by the new tracer.
NewTracerReturnsTableEntry ==
    IsRootTracer(heap, root) =>
        \A n \in Names, b \in BOOLEAN : \A S2 \in Outcomes(Cur, NewTracerCall(n, b)) :
            /\ ~T1Panic(S2)
            /\ n \in DOMAIN S2.selectableTracers
            /\ T1Ret(S2) = S2.selectableTracers[n]
            /\ S2.loc["t1"].ret2 = GetTracerValue(selectableTracers, n)
            /\ (n \in DOMAIN selectableTracers /\ ~b) =>
                   S2.selectableTracers[n] = selectableTracers[n]
            /\ (n \notin DOMAIN selectableTracers \/ b) =>
                   /\ BuiltBy(S2, S2.selectableTracers[n], root)
                   /\ heap[root].adapter # "nop" => NewIn(heap, S2.selectableTracers[n])
            /\ \A m \in DOMAIN selectableTracers \ {n} :
                   /\ m \in DOMAIN S2.selectableTracers
                   /\ S2.selectableTracers[m] = selectableTracers[m]

\* ------------------------------------------------- the bare-bones root
\* tracing.Errorf(msg): Select("root").Errorf(msg)
TheErrorfCall == [NoCall EXCEPT !.op = "Errorf", !.name = "root"]

\* C37: while no ConfigureRoot has installed a root since the start or
\* since the last Teardown, GetOrCreateTracer(name), and Select(name)
\* through the trace2go selector, return the bare-bones root tracer itself,
\* the one Root() returns, for every name, and leave the table of named
\* tracers empty; tracing.Errorf is then a call of Errorf on that root.
BareBonesRootServesEveryName ==
    ~IsRootTracer(heap, root) =>
        /\ selectableTracers = EmptyTable
        /\ \A n \in Names : \A c \in LookupsOf(Cur, n) : \A S2 \in Outcomes(Cur, c) :
              /\ ~T1Panic(S2)
              /\ IsBareBones(S2.heap, T1Ret(S2))
              /\ T1Ret(S2) = S2.root
              /\ S2.selectableTracers = EmptyTable
              /\ \A S3 \in Outcomes(After(S2), TheRootCall) : T1Ret(S3) = T1Ret(S2)
        /\ selector = "trace2go" =>
              \A S2 \in Outcomes(Cur, TheErrorfCall) :
                  /\ ~T1Panic(S2)
                  /\ S2.root # Nil

\* ------------------------------------------- the table entry "root"
\* C38: the cascade never touches the table entry "root": after a
\* ConfigureRoot with ReplaceTracers(true) the tracer stored under the key
\* "root", if there was one, is the same instance as before the call and
\* has the level it had.
CascadeLeavesRootEntry ==
    "root" \in DOMAIN selectableTracers =>
        \A c \in ReplacingCalls : \A S2 \in Outcomes(Cur, c) :
            /\ "root" \in DOMAIN S2.selectableTracers
            /\ S2.selectableTracers["root"] = selectableTracers["root"]
            /\ S2.heap[selectableTracers["root"]] = heap[selectableTracers["root"]]
            /\ GetTraceLevel(S2.heap, S2.selectableTracers["root"])
                   = GetTraceLevel(heap, selectableTracers["root"])

\* The table holds tracers under "root" and under "a", and a ConfigureRoot
\* with ReplaceTracers(true) replaces the one under "a", not the other.
CascadeLeavesRootEntryWitness ==
    /\ {"root", "a"} \subseteq DOMAIN selectableTracers
    /\ IsRootTracer(heap, root)
    /\ \E c \in ReplacingCalls : \E S2 \in Outcomes(Cur, c) :
          /\ ~T1Err(S2) /\ ~T1Panic(S2)
          /\ S2.selectableTracers["a"] # selectableTracers["a"]
          /\ NewIn(heap, S2.selectableTracers["a"])
          /\ S2.selectableTracers["root"] = selectableTracers["root"]

\* ------------------------------------------------- the wrapper of P
\* The chains of keys of P(a, v) and P(a, v).P(x, v), and the context a
\* message with these pairs carries: the prefix of gologadapter, the
\* attributes of goslogadapter.
KeyChains == {<<"a">>, <<"a", "x">>}
ContextOf(kind, ks) ==
    IF kind = "golog"
    THEN (IF ks = <<"a">> THEN "[a=v] " ELSE "[a=v] [x=v] ")
    ELSE (IF ks = <<"a">> THEN "a=v " ELSE "a=v x=v ")

\* The wrapper tr.P(ks[1], v).P(ks[2], v)...
RECURSIVE ChainOfP(_, _)
ChainOfP(tr, ks) ==
    IF Len(ks) = 1 THEN logentry(tr, ks[1])
    ELSE logentryP(ChainOfP(tr, SubSeq(ks, 1, Len(ks) - 1)), ks[Len(ks)])

\* C39: on a tracer of gologadapter or goslogadapter, a message emitted
\* through the wrapper that P(key, value) returns carries the key and the
\* value, whichever of Debugf, Infof and Errorf emits it, when the level of
\* the tracer lets it pass, and the pairs of chained calls of P are all on
\* the message.
WrapperCarriesContext ==
    tracer.kind \in {"golog", "slog"} =>
        \A ks \in KeyChains, l \in Levels :
            LET ms == logentryOutput(ChainOfP(tracer, ks), l) IN
            IF Enabled(tracer, l)
            THEN /\ Len(ms) = 1
                 /\ ms[1].to = tracer.out
                 /\ ms[1].ctx = ContextOf(tracer.kind, ks)
            ELSE ms = <<>>

====
